---------------------------- MODULE Spec2Model ----------------------------
(***************************************************************************)
(* Deployment timing and clock offset resolution of oceanarray:            *)
(*   find_deployment.py  (find_deployment and its helpers),                *)
(*   clock_offset.py     (calculate_timing_offsets,                        *)
(*                        perform_lag_correlation_analysis),               *)
(*   tools.py            (lag_correlation).                                *)
(*                                                                         *)
(* Number model.  Timestamps (datetime64) are whole seconds; NaT is the    *)
(* sentinel NaT.  A float is an exact rational [n, d] with d > 0, and NaN  *)
(* is the value with d = 0; arithmetic propagates NaN and every comparison *)
(* with NaN is false, as in IEEE/numpy.  A value that holds a square root  *)
(* (a standard deviation, a Pearson correlation) is kept exactly through   *)
(* its square.                                                             *)
(***************************************************************************)
EXTENDS Integers, Sequences, FiniteSets, TLC

VARIABLES
    shape,            \* structure of ds: has_var, dims of the measurement variable
    time,             \* ds["time"].values, seconds
    temperature,      \* ds[var_name]: temperature[i][j] = value at time j of level i
    clock_offset,     \* ds["clock_offset"], one per level
    start_time,       \* ds["start_time"]: [present, values]
    end_time,         \* ds["end_time"]:   [present, values]
    split_value,      \* ds["split_value"]:[present, values]
    passed,           \* the dataset as it was passed to the running call
    call,             \* the running call: its name and keyword arguments
    pc,               \* position of the running call
    lvl,              \* loop index i of the running call
    exc,              \* exception the call raised, "none" otherwise
    locals,           \* locals of the loop body of the running call
    deep_is_below,    \* history: the deep_is_below local of each level processed
    offset_results,   \* dict returned by calculate_timing_offsets
    lag_results,      \* dict built by perform_lag_correlation_analysis
    suggestion,       \* dict returned by suggest_reference_instrument
    result            \* dataset returned by Stage2Processor._apply_clock_offset

vars == <<shape, time, temperature, clock_offset, start_time, end_time,
          split_value, passed, call, pc, lvl, exc, locals, deep_is_below,
          offset_results, lag_results, suggestion, result>>

-----------------------------------------------------------------------------
(* Bounds of the model *)

MaxLen == 3
MaxLevels == 2
MaxCells == 6

-----------------------------------------------------------------------------
(* Floats as exact rationals *)

NaN == [n |-> 0, d |-> 0]

Abs(x) == IF x < 0 THEN -x ELSE x

RECURSIVE Gcd(_, _)
Gcd(a, b) == IF b = 0 THEN a ELSE Gcd(b, a % b)

\* the float n/d (d # 0), in lowest terms with a positive denominator
Rat(n, d) ==
    LET s == IF d < 0 THEN -1 ELSE 1
        g == Gcd(Abs(n), Abs(d))
    IN  [n |-> s * (n \div g), d |-> Abs(d) \div g]

R(k) == [n |-> k, d |-> 1]

isnan(x) == x.d = 0
isfinite(x) == x.d # 0

RAdd(x, y) == IF isnan(x) \/ isnan(y) THEN NaN
              ELSE Rat(x.n * y.d + y.n * x.d, x.d * y.d)
RNeg(x) == [n |-> -x.n, d |-> x.d]
RSub(x, y) == RAdd(x, RNeg(y))
RMul(x, y) ==
    IF isnan(x) \/ isnan(y) THEN NaN
    ELSE LET a == Rat(x.n, y.d)
             b == Rat(y.n, x.d)
         IN  Rat(a.n * b.n, a.d * b.d)
\* x / y; 0/0 is NaN (the only division by zero the modelled code performs)
RDiv(x, y) == IF isnan(x) \/ isnan(y) \/ y.n = 0 THEN NaN
              ELSE RMul(x, Rat(y.d, y.n))
RLt(x, y) == isfinite(x) /\ isfinite(y) /\ x.n * y.d < y.n * x.d
RLe(x, y) == isfinite(x) /\ isfinite(y) /\ x.n * y.d <= y.n * x.d
RGe(x, y) == RLe(y, x)
RGt(x, y) == RLt(y, x)
\* largest integer <= x (x finite)
RFloor(x) == IF x.n >= 0 THEN x.n \div x.d ELSE -((-x.n + x.d - 1) \div x.d)

\* Python's builtin max(a, b): a unless b > a, so a NaN first argument wins
PyMax(a, b) == IF RGt(b, a) THEN b ELSE a

-----------------------------------------------------------------------------
(* numpy / pandas reductions *)

Indices(s) == 1..Len(s)

Max(a, b) == IF a >= b THEN a ELSE b
Min(a, b) == IF a <= b THEN a ELSE b

\* s[mask]: the elements of s at the indices where mask holds
RECURSIVE MaskedRange(_, _, _, _)
MaskedRange(s, mask, lo, hi) ==
    IF lo > hi THEN <<>>
    ELSE IF lo = hi THEN (IF mask[lo] THEN <<s[lo]>> ELSE <<>>)
    ELSE LET mid == (lo + hi) \div 2
         IN  MaskedRange(s, mask, lo, mid) \o MaskedRange(s, mask, mid + 1, hi)

Masked(s, mask, j) == MaskedRange(s, mask, j, Len(s))

Finite(s) == Masked(s, [j \in Indices(s) |-> isfinite(s[j])], 1)

\* s[lo] + ... + s[hi]
RECURSIVE RSumRange(_, _, _)
RSumRange(s, lo, hi) ==
    IF lo > hi THEN R(0)
    ELSE IF lo = hi THEN s[lo]
    ELSE LET mid == (lo + hi) \div 2
         IN  RAdd(RSumRange(s, lo, mid), RSumRange(s, mid + 1, hi))

RSum(s, j) == RSumRange(s, j, Len(s))

\* np.nanmean: NaN for an empty or all-NaN slice
nanmean(s) ==
    LET f == Finite(s) IN IF Len(f) = 0 THEN NaN ELSE RDiv(RSum(f, 1), R(Len(f)))

\* the square of np.nanstd(s, ddof): sum((x - mean)^2) / (count - ddof)
nanvar(s, ddof) ==
    LET f  == Finite(s)
        mu == nanmean(s)
        sq == [j \in Indices(f) |-> RMul(RSub(f[j], mu), RSub(f[j], mu))]
    IN  IF Len(f) = 0 THEN NaN ELSE RDiv(RSum(sq, 1), R(Len(f) - ddof))

\* the values in S in ascending order, each as often as it occurs in s
RECURSIVE SortedValues(_, _)
SortedValues(S, s) ==
    IF S = {} THEN <<>>
    ELSE LET least == CHOOSE x \in S : \A y \in S : RLe(x, y)
         IN  [k \in 1..Cardinality({j \in Indices(s) : s[j] = least}) |-> least]
               \o SortedValues(S \ {least}, s)

\* s (finite floats) in ascending order
Sorted(s) == SortedValues({s[j] : j \in Indices(s)}, s)

\* np.nanpercentile(s, p), linear interpolation between order statistics
nanpercentile(s, p) ==
    LET v    == Sorted(Finite(s))
        k    == Len(v)
        pos  == Rat(p * (k - 1), 100)
        lo   == RFloor(pos)
        frac == RSub(pos, R(lo))
    IN  IF k = 0 THEN NaN
        ELSE IF lo + 2 > k THEN v[lo + 1]
        ELSE RAdd(v[lo + 1], RMul(frac, RSub(v[lo + 2], v[lo + 1])))

\* np.nanmedian, and the median pandas' rolling window takes (NaN skipped)
nanmedian(s) == nanpercentile(s, 50)

\* pd.Series(y).rolling(win, center=True, min_periods=1).median()
rolling_median(y, win) ==
    [j \in Indices(y) |->
        LET half == (win - 1) \div 2
        IN  nanmedian(SubSeq(y, Max(1, j - half), Min(Len(y), j + (win - 1 - half))))]

-----------------------------------------------------------------------------
(* find_deployment.py: the per-level helpers *)

NaT == -1
Hour == 3600

isnat(t) == t = NaT

Some(t) == [given |-> TRUE, t |-> t]
None == [given |-> FALSE, t |-> NaT]

\* Timedelta * float, cut to the resolution of the timestamps
TimesFraction(span, f) == (span * f.n) \div f.d

\* likely_at_bottom_window falling back only when the clipped window is inverted
likely_at_bottom_window_inverted_only(t, strategy, bottom_margin_hours, bottom_inner_fraction, deployment_time, recovery_time, deployment_margin_hours) ==
    IF Len(t) = 0 THEN [exc |-> "IndexError", start |-> NaT, end |-> NaT]
    ELSE
    LET tmin == t[1]
        tmax == t[Len(t)]
        span == tmax - tmin
        pad  == TimesFraction(span, bottom_inner_fraction)
        raw  == IF strategy = "fixed_hours"
                THEN [start |-> tmin + bottom_margin_hours * Hour,
                      end   |-> tmax - bottom_margin_hours * Hour]
                ELSE IF strategy = "deployment_bounds"
                        /\ deployment_time.given /\ recovery_time.given
                THEN [start |-> deployment_time.t + deployment_margin_hours * Hour,
                      end   |-> recovery_time.t - deployment_margin_hours * Hour]
                ELSE [start |-> tmin + pad, end |-> tmax - pad]
        start == Max(raw.start, tmin)
        end   == Min(raw.end, tmax)
    IN  IF end < start
        THEN [exc |-> "none",
              start |-> tmin + TimesFraction(span, Rat(33, 100)),
              end   |-> tmin + TimesFraction(span, Rat(66, 100))]
        ELSE [exc |-> "none", start |-> start, end |-> end]

\* likely_at_bottom_window: [exc, start, end]; t[0] of an empty axis raises
likely_at_bottom_window(t, strategy, bottom_margin_hours, bottom_inner_fraction, deployment_time, recovery_time, deployment_margin_hours) ==
    IF Len(t) = 0 THEN [exc |-> "IndexError", start |-> NaT, end |-> NaT]
    ELSE
    LET tmin == t[1]
        tmax == t[Len(t)]
        span == tmax - tmin
        pad  == TimesFraction(span, bottom_inner_fraction)
        raw  == IF strategy = "fixed_hours"
                THEN [start |-> tmin + bottom_margin_hours * Hour,
                      end   |-> tmax - bottom_margin_hours * Hour]
                ELSE IF strategy = "deployment_bounds"
                        /\ deployment_time.given /\ recovery_time.given
                THEN [start |-> deployment_time.t + deployment_margin_hours * Hour,
                      end   |-> recovery_time.t - deployment_margin_hours * Hour]
                ELSE [start |-> tmin + pad, end |-> tmax - pad]
        start == Max(raw.start, tmin)
        end   == Min(raw.end, tmax)
    IN  IF end <= start
        THEN [exc |-> "none",
              start |-> tmin + TimesFraction(span, Rat(33, 100)),
              end   |-> tmin + TimesFraction(span, Rat(66, 100))]
        ELSE [exc |-> "none", start |-> start, end |-> end]

\* determine_sea_values leaving a sample at bot_start out of the window
determine_sea_values_open_window(t, y, bot_start, bot_end) ==
    LET m  == [j \in Indices(y) |-> t[j] > bot_start /\ t[j] <= bot_end]
        ym == Masked(y, m, 1)
    IN  IF \E j \in Indices(y) : m[j]
        THEN [mean   |-> nanmean(ym),
              std_sq |-> IF Len(Finite(ym)) > 1 THEN nanvar(ym, 1) ELSE R(0)]
        ELSE
        LET q25 == nanpercentile(y, 25)
            q75 == nanpercentile(y, 75)
            m2  == [j \in Indices(y) |-> RGe(y[j], q25) /\ RLe(y[j], q75)]
            y2  == Masked(y, m2, 1)
        IN  [mean   |-> IF \E j \in Indices(y) : m2[j]
                        THEN nanmean(y2) ELSE nanmean(y),
             std_sq |-> IF Len(Finite(y2)) > 1
                        THEN nanvar(y2, 1) ELSE nanvar(y, 1)]

\* determine_sea_values: [mean, std_sq], std_sq being the square of sea_std
determine_sea_values(t, y, bot_start, bot_end) ==
    LET m  == [j \in Indices(y) |-> t[j] >= bot_start /\ t[j] <= bot_end]
        ym == Masked(y, m, 1)
    IN  IF \E j \in Indices(y) : m[j]
        THEN [mean   |-> nanmean(ym),
              std_sq |-> IF Len(Finite(ym)) > 1 THEN nanvar(ym, 1) ELSE R(0)]
        ELSE
        LET q25 == nanpercentile(y, 25)
            q75 == nanpercentile(y, 75)
            m2  == [j \in Indices(y) |-> RGe(y[j], q25) /\ RLe(y[j], q75)]
            y2  == Masked(y, m2, 1)
        IN  [mean   |-> IF \E j \in Indices(y) : m2[j]
                        THEN nanmean(y2) ELSE nanmean(y),
             std_sq |-> IF Len(Finite(y2)) > 1
                        THEN nanvar(y2, 1) ELSE nanvar(y, 1)]

\* the float  mean + sign * sqrt(halfw_sq)
NaNThreshold == [mean |-> NaN, sign |-> 1, halfw_sq |-> NaN]
Threshold(mean, sign, halfw_sq) ==
    IF isnan(mean) \/ isnan(halfw_sq) THEN NaNThreshold
    ELSE [mean |-> mean, sign |-> sign, halfw_sq |-> halfw_sq]
ThresholdIsFinite(thr) == isfinite(thr.mean)

\* y < thr for a float y
BelowThreshold(y, thr) ==
    /\ isfinite(y)
    /\ ThresholdIsFinite(thr)
    /\ LET dlt == RSub(y, thr.mean)
           sq  == RMul(dlt, dlt)
       IN  IF thr.sign = 1
           THEN RLt(dlt, R(0)) \/ RLt(sq, thr.halfw_sq)
           ELSE RLt(dlt, R(0)) /\ RGt(sq, thr.halfw_sq)

\* compute_threshold_sigma_band taking the warm side for low on warm_est = sea_mean
compute_threshold_sigma_band_strict(t, temp, sea_mean, sea_std_sq, band_sigma, min_band_halfwidth, warm_side, hours, smooth_window, warm_percentile) ==
    LET halfw_sq == PyMax(RMul(RMul(band_sigma, band_sigma), sea_std_sq),
                          RMul(min_band_halfwidth, min_band_halfwidth))
        ys    == rolling_median(temp, smooth_window)
        tmin  == t[1]
        tmax  == t[Len(t)]
        early == [j \in Indices(t) |-> t[j] <= tmin + hours * Hour]
        late  == [j \in Indices(t) |-> t[j] >= tmax - hours * Hour]
        warm_samples ==
            (IF \E j \in Indices(t) : early[j]
             THEN <<nanpercentile(Masked(ys, early, 1), warm_percentile)>> ELSE <<>>)
            \o
            (IF \E j \in Indices(t) : late[j]
             THEN <<nanpercentile(Masked(ys, late, 1), warm_percentile)>> ELSE <<>>)
        side == IF warm_side # "auto" THEN warm_side
                ELSE IF Len(warm_samples) > 0
                THEN (IF RGt(nanmedian(warm_samples), sea_mean) THEN "high" ELSE "low")
                ELSE "high"
    IN  IF side = "low"
        THEN [threshold |-> Threshold(sea_mean, -1, halfw_sq), deep_is_below |-> FALSE]
        ELSE [threshold |-> Threshold(sea_mean, 1, halfw_sq), deep_is_below |-> TRUE]

\* compute_threshold_sigma_band: [threshold, deep_is_below]
compute_threshold_sigma_band(t, temp, sea_mean, sea_std_sq, band_sigma, min_band_halfwidth, warm_side, hours, smooth_window, warm_percentile) ==
    LET halfw_sq == PyMax(RMul(RMul(band_sigma, band_sigma), sea_std_sq),
                          RMul(min_band_halfwidth, min_band_halfwidth))
        ys    == rolling_median(temp, smooth_window)
        tmin  == t[1]
        tmax  == t[Len(t)]
        early == [j \in Indices(t) |-> t[j] <= tmin + hours * Hour]
        late  == [j \in Indices(t) |-> t[j] >= tmax - hours * Hour]
        warm_samples ==
            (IF \E j \in Indices(t) : early[j]
             THEN <<nanpercentile(Masked(ys, early, 1), warm_percentile)>> ELSE <<>>)
            \o
            (IF \E j \in Indices(t) : late[j]
             THEN <<nanpercentile(Masked(ys, late, 1), warm_percentile)>> ELSE <<>>)
        side == IF warm_side # "auto" THEN warm_side
                ELSE IF Len(warm_samples) > 0
                THEN (IF RGe(nanmedian(warm_samples), sea_mean) THEN "high" ELSE "low")
                ELSE "high"
    IN  IF side = "low"
        THEN [threshold |-> Threshold(sea_mean, -1, halfw_sq), deep_is_below |-> FALSE]
        ELSE [threshold |-> Threshold(sea_mean, 1, halfw_sq), deep_is_below |-> TRUE]

\* np.where(mask)[0]
RECURSIVE WhereRange(_, _, _)
WhereRange(mask, lo, hi) ==
    IF lo > hi THEN <<>>
    ELSE IF lo = hi THEN (IF mask[lo] THEN <<lo>> ELSE <<>>)
    ELSE LET mid == (lo + hi) \div 2
         IN  WhereRange(mask, lo, mid) \o WhereRange(mask, mid + 1, hi)

Where(mask, j) == WhereRange(mask, j, Len(mask))

\* the same search reading idx[0] for both boundaries
find_entry_exit_first_only(t, temp, threshold) ==
    LET below == [j \in Indices(temp) |-> BelowThreshold(temp[j], threshold)]
        idx   == Where(below, 1)
    IN  IF Len(idx) > 0
        THEN [sink_time |-> t[idx[1]], float_time |-> t[idx[1]]]
        ELSE [sink_time |-> NaT, float_time |-> NaT]

\* the same search with idx[0] and idx[-1] exchanged
find_entry_exit_swapped(t, temp, threshold) ==
    LET below == [j \in Indices(temp) |-> BelowThreshold(temp[j], threshold)]
        idx   == Where(below, 1)
    IN  IF Len(idx) > 0
        THEN [sink_time |-> t[idx[Len(idx)]], float_time |-> t[idx[1]]]
        ELSE [sink_time |-> NaT, float_time |-> NaT]

\* find_entry_exit_from_threshold: [sink_time, float_time]
find_entry_exit_from_threshold(t, temp, threshold) ==
    LET below == [j \in Indices(temp) |-> BelowThreshold(temp[j], threshold)]
        idx   == Where(below, 1)
    IN  IF Len(idx) > 0
        THEN [sink_time |-> t[idx[1]], float_time |-> t[idx[Len(idx)]]]
        ELSE [sink_time |-> NaT, float_time |-> NaT]

-----------------------------------------------------------------------------
(* The dataset and the calls on it *)

Absent == [present |-> FALSE, values |-> <<>>]
Present(v) == [present |-> TRUE, values |-> v]

\* number of levels: ds.sizes["N_LEVELS"]
nlev == Len(clock_offset)

Dataset ==
    [shape |-> shape, time |-> time, temperature |-> temperature,
     clock_offset |-> clock_offset, start_time |-> start_time,
     end_time |-> end_time, split_value |-> split_value]

NoCall ==
    [name |-> "none", bottom_strategy |-> "percent_span",
     bottom_margin_hours |-> 24, bottom_inner_fraction |-> Rat(1, 4),
     deployment_time |-> None, recovery_time |-> None,
     deployment_margin_hours |-> 2, band_sigma |-> R(3),
     bin_width_sec |-> 60, ref_index |-> 0, sub_sample |-> 5,
     x |-> <<>>, y |-> <<>>, max_lag |-> 0, min_overlap |-> 10,
     sea_mean |-> NaN, sea_std_sq |-> NaN, min_band_halfwidth |-> Rat(1, 10),
     warm_side |-> "auto", hours |-> 24, smooth_window |-> 9,
     warm_percentile |-> 90, bot_start |-> NaT, bot_end |-> NaT,
     clock_offset |-> R(0), min_seg |-> 1, mask |-> <<>>, min_len |-> 1]

NoOffsets ==
    [start_offsets |-> <<>>, end_offsets |-> <<>>, avg_offsets |-> <<>>,
     diff_offsets |-> <<>>, drift_rates |-> <<>>, consensus_indices |-> {},
     ref_start |-> NaT, ref_end |-> NaT]

NoLags ==
    [time_interval |-> NaN, max_lag_sub |-> 0, lags |-> <<>>,
     correlations |-> <<>>, max_correlations |-> <<>>, clock_offsets |-> <<>>]

NoLocals ==
    [bot_start |-> NaT, bot_end |-> NaT, sea_mean |-> NaN, sea_std_sq |-> NaN,
     thr |-> NaNThreshold, deep_is_below |-> FALSE,
     sink_time |-> NaT, float_time |-> NaT, corrs_sub |-> <<>>,
     best_k |-> -1, best_mu1 |-> NaN, best_mu2 |-> NaN,
     runs |-> <<>>, first |-> <<>>, last |-> <<>>]

NoSuggestion == [suggested_index |-> -1, reason |-> "none"]

NoResult == [time |-> <<>>, clock_offset |-> NaN, units |-> "none"]

AtRest ==
    /\ suggestion = NoSuggestion
    /\ result = NoResult
    /\ passed = Dataset
    /\ call = NoCall
    /\ pc = "idle"
    /\ lvl = 0
    /\ exc = "none"
    /\ locals = NoLocals
    /\ deep_is_below = <<>>
    /\ offset_results = NoOffsets
    /\ lag_results = NoLags

-----------------------------------------------------------------------------
(* find_deployment *)

GoodDims == <<"time", "N_LEVELS">>

\* the structural checks without the check of the dims
validate_var_only(sh) ==
    IF ~sh.has_var THEN "ValueError" ELSE "none"

\* lines 409-418: the structural checks, "none" when they pass
validate(sh) ==
    IF ~sh.has_var THEN "ValueError"
    ELSE IF sh.dims # GoodDims THEN "ValueError"
    ELSE IF "N_LEVELS" \notin sh.sizes THEN "ValueError"
    ELSE "none"

\* lines 420-426: an output variable is created only when it is not in ds
ensure_output(v, n, fill) ==
    IF v.present THEN v ELSE Present([k \in 1..n |-> fill])

\* lines 409-429: validation, creation of the outputs, time[0]
FDStartWith(c) ==
    /\ call' = c
    /\ passed' = Dataset
    /\ lvl' = 0
    /\ deep_is_below' = <<>>
    /\ IF validate(shape) # "none"
       THEN /\ exc' = validate(shape)
            /\ pc' = "raised"
            /\ UNCHANGED <<start_time, end_time, split_value>>
       ELSE /\ start_time' = ensure_output(start_time, nlev, NaT)
            /\ end_time' = ensure_output(end_time, nlev, NaT)
            /\ split_value' = ensure_output(split_value, nlev, NaNThreshold)
            /\ IF Len(time) = 0
               THEN exc' = "IndexError" /\ pc' = "raised"
               ELSE exc' = "none" /\ pc' = "loop"
    /\ UNCHANGED <<result, suggestion, shape, time, temperature, clock_offset, locals, offset_results,
                   lag_results>>

\* a call with the defaults of every argument but bottom_strategy
FDStart ==
    /\ pc = "idle"
    /\ \E strategy \in {"fixed_hours", "percent_span", "deployment_bounds"} :
          FDStartWith([NoCall EXCEPT !.name = "find_deployment",
                                     !.bottom_strategy = strategy])

\* a call passing band_sigma, deployment_time and recovery_time as well
BandSigmas == {Rat(3, 2), R(3)}
DeploymentTimes == {None, Some(24 * Hour)}
RecoveryTimes == {None, Some(72 * Hour)}
FDStartTuned ==
    /\ pc = "idle"
    /\ \E strategy \in {"fixed_hours", "percent_span", "deployment_bounds"}, sigma \in BandSigmas, dt \in DeploymentTimes, rt \in RecoveryTimes :
          FDStartWith([NoCall EXCEPT !.name = "find_deployment",
                                     !.bottom_strategy = strategy,
                                     !.band_sigma = sigma,
                                     !.deployment_time = dt,
                                     !.recovery_time = rt])

\* lines 432-446: data1, deployment_time, recovery_time, the bottom window
FDWindow ==
    /\ pc = "loop"
    /\ call.name = "find_deployment"
    /\ lvl < nlev
    /\ LET deployment_time == Some(time[1])
           recovery_time   == Some(time[Len(time)])
           bot == likely_at_bottom_window(time, call.bottom_strategy, call.bottom_margin_hours, call.bottom_inner_fraction, deployment_time, recovery_time, call.deployment_margin_hours)
       IN  /\ locals' = [NoLocals EXCEPT !.bot_start = bot.start, !.bot_end = bot.end]
           /\ exc' = bot.exc
           /\ pc' = IF bot.exc = "none" THEN "sea" ELSE "raised"
    /\ UNCHANGED <<result, suggestion, shape, time, temperature, clock_offset, start_time, end_time,
                   split_value, passed, call, lvl, deep_is_below,
                   offset_results, lag_results>>

\* the sea values taken from the column of level 0 for every level
FDSeaOfFirstLevel ==
    /\ pc = "sea"
    /\ LET sea == determine_sea_values(time, temperature[1], locals.bot_start, locals.bot_end)
       IN  locals' = [locals EXCEPT !.sea_mean = sea.mean, !.sea_std_sq = sea.std_sq]
    /\ pc' = "threshold"
    /\ UNCHANGED <<result, suggestion, shape, time, temperature, clock_offset, start_time, end_time,
                   split_value, passed, call, lvl, exc, deep_is_below,
                   offset_results, lag_results>>

\* line 449: sea_mean, sea_std
FDSea ==
    /\ pc = "sea"
    /\ LET sea == determine_sea_values(time, temperature[lvl + 1], locals.bot_start, locals.bot_end)
       IN  locals' = [locals EXCEPT !.sea_mean = sea.mean, !.sea_std_sq = sea.std_sq]
    /\ pc' = "threshold"
    /\ UNCHANGED <<result, suggestion, shape, time, temperature, clock_offset, start_time, end_time,
                   split_value, passed, call, lvl, exc, deep_is_below,
                   offset_results, lag_results>>

\* lines 453-464: thr, deep_is_below, with the keyword values written there
FDThreshold ==
    /\ pc = "threshold"
    /\ LET r == compute_threshold_sigma_band(time, temperature[lvl + 1], locals.sea_mean, locals.sea_std_sq, Rat(3, 2), Rat(1, 10), "auto", 24, 9, 90)
       IN  locals' = [locals EXCEPT !.thr = r.threshold, !.deep_is_below = r.deep_is_below]
    /\ pc' = "search"
    /\ UNCHANGED <<result, suggestion, shape, time, temperature, clock_offset, start_time, end_time,
                   split_value, passed, call, lvl, exc, deep_is_below,
                   offset_results, lag_results>>

\* line 466: sink_time, float_time
FDSearch ==
    /\ pc = "search"
    /\ LET se == find_entry_exit_from_threshold(time, temperature[lvl + 1], locals.thr)
       IN  locals' = [locals EXCEPT !.sink_time = se.sink_time, !.float_time = se.float_time]
    /\ pc' = "assign"
    /\ UNCHANGED <<result, suggestion, shape, time, temperature, clock_offset, start_time, end_time,
                   split_value, passed, call, lvl, exc, deep_is_below,
                   offset_results, lag_results>>

\* lines 469-479: the three outputs of level i; then the next level
FDAssign ==
    /\ pc = "assign"
    /\ start_time' = [start_time EXCEPT !.values[lvl + 1] = locals.sink_time]
    /\ end_time' = [end_time EXCEPT !.values[lvl + 1] = locals.float_time]
    /\ split_value' = [split_value EXCEPT !.values[lvl + 1] =
                          IF ThresholdIsFinite(locals.thr) THEN locals.thr ELSE NaNThreshold]
    /\ deep_is_below' = Append(deep_is_below, locals.deep_is_below)
    /\ lvl' = lvl + 1
    /\ pc' = "loop"
    /\ UNCHANGED <<result, suggestion, shape, time, temperature, clock_offset, passed, call, exc,
                   locals, offset_results, lag_results>>

\* line 495
FDReturn ==
    /\ pc = "loop"
    /\ call.name = "find_deployment"
    /\ lvl = nlev
    /\ pc' = "returned"
    /\ UNCHANGED <<result, suggestion, shape, time, temperature, clock_offset, start_time, end_time,
                   split_value, passed, call, lvl, exc, locals, deep_is_below,
                   offset_results, lag_results>>

-----------------------------------------------------------------------------
(* Datasets find_deployment is run on *)

TimeSteps == {0, 48 * Hour}
TempValues == {NaN, R(5), R(20)}

\* a time axis of n samples: non-decreasing, steps from TimeSteps
RECURSIVE Cumulate(_, _, _)
Cumulate(steps, j, t0) ==
    IF j > Len(steps) THEN <<t0>>
    ELSE <<t0>> \o Cumulate(steps, j + 1, t0 + steps[j])

TimeAxes(n) ==
    IF n = 0 THEN {<<>>}
    ELSE {Cumulate(steps, 1, 0) : steps \in [1..(n - 1) -> TimeSteps]}

GoodShape == [has_var |-> TRUE, dims |-> GoodDims, sizes |-> {"time", "N_LEVELS"}]
BadShapes ==
    {[has_var |-> FALSE, dims |-> <<>>, sizes |-> {"time", "N_LEVELS"}],
     [has_var |-> TRUE, dims |-> <<"N_LEVELS", "time">>, sizes |-> {"time", "N_LEVELS"}],
     [has_var |-> TRUE, dims |-> <<"time">>, sizes |-> {"time"}]}

\* a dataset whose measurement variable has the dims find_deployment asks for
GoodDataset ==
    /\ \E n \in 0..MaxLen, N \in 1..MaxLevels :
          /\ n * N <= MaxCells
          /\ time \in TimeAxes(n)
          /\ temperature \in [1..N -> [1..n -> TempValues]]
          /\ clock_offset = [k \in 1..N |-> 0]
    /\ shape = GoodShape

\* a dataset without the variable, with it transposed, or with it 1-D
BadDataset ==
    /\ time \in TimeAxes(1)
    /\ shape \in BadShapes
    /\ temperature = IF shape.has_var THEN <<<<R(5)>>>> ELSE <<>>
    /\ clock_offset = IF "N_LEVELS" \in shape.sizes THEN <<0>> ELSE <<>>

InitDeploy ==
    /\ GoodDataset \/ BadDataset
    /\ start_time = Absent
    /\ end_time = Absent
    /\ split_value = Absent
    /\ AtRest

NextDeploy ==
    FDStart \/ FDWindow \/ FDSea \/ FDThreshold \/ FDSearch \/ FDAssign \/ FDReturn

SpecDeploy == InitDeploy /\ [][NextDeploy]_vars

-----------------------------------------------------------------------------
(* clock_offset.py: calculate_timing_offsets *)

\* the difference taken the other way round
seconds_between_reversed(a, b) == IF isnat(a) \/ isnat(b) THEN NaN ELSE R(b - a)

\* (a - b) / np.timedelta64(1, "s"): NaN when a timestamp is NaT
seconds_between(a, b) == IF isnat(a) \/ isnat(b) THEN NaN ELSE R(a - b)

\* DatetimeIndex.min() / .max(): NaT is skipped, NaT for no finite entry
RECURSIVE dt_min(_)
dt_min(ts) ==
    IF Len(ts) = 0 THEN NaT
    ELSE LET rest == dt_min(Tail(ts))
         IN  IF isnat(Head(ts)) THEN rest
             ELSE IF isnat(rest) THEN Head(ts) ELSE Min(Head(ts), rest)

RECURSIVE dt_max(_)
dt_max(ts) ==
    IF Len(ts) = 0 THEN NaT
    ELSE LET rest == dt_max(Tail(ts))
         IN  IF isnat(Head(ts)) THEN rest
             ELSE IF isnat(rest) THEN Head(ts) ELSE Max(Head(ts), rest)

\* vals.min() / vals.max() of a non-empty sequence of finite floats
RECURSIVE seq_min(_)
seq_min(v) == IF Len(v) = 1 THEN v[1]
              ELSE LET rest == seq_min(Tail(v)) IN IF RLt(rest, v[1]) THEN rest ELSE v[1]
RECURSIVE seq_max(_)
seq_max(v) == IF Len(v) = 1 THEN v[1]
              ELSE LET rest == seq_max(Tail(v)) IN IF RGt(rest, v[1]) THEN rest ELSE v[1]

\* np.arange(first, stop, step) for whole first, stop, step > 0
RECURSIVE arange(_, _, _)
arange(first, stop, step) ==
    IF first >= stop THEN <<>> ELSE <<first>> \o arange(first + step, stop, step)

\* np.histogram(vals, bins=edges): bin k is [edges[k], edges[k+1]), the last one closed
histogram(vals, edges) ==
    [k \in 1..(Len(edges) - 1) |->
        Cardinality({j \in Indices(vals) :
            /\ vals[j].n >= edges[k] * vals[j].d
            /\ \/ vals[j].n < edges[k + 1] * vals[j].d
               \/ (k = Len(edges) - 1 /\ vals[j].n = edges[k + 1] * vals[j].d)})]

\* np.argmax with the last maximum taken
RECURSIVE argmax_last(_)
argmax_last(h) ==
    IF Len(h) = 1 THEN 1
    ELSE LET rest == 1 + argmax_last(Tail(h))
         IN  IF h[1] > h[rest] THEN 1 ELSE rest

\* np.argmax: index (1-based here) of the first maximum
RECURSIVE argmax(_)
argmax(h) ==
    IF Len(h) = 1 THEN 1
    ELSE LET rest == 1 + argmax(Tail(h))
         IN  IF h[1] >= h[rest] THEN 1 ELSE rest

\* lines 265-283: naive offsets against min(start) and max(end)
naive_offsets(st, et) ==
    LET ref_start0 == dt_min(st)
        ref_end0   == dt_max(et)
    IN  [start_off0 |-> [i \in Indices(st) |-> seconds_between(st[i], ref_start0)],
         end_off0   |-> [i \in Indices(et) |-> seconds_between(et[i], ref_end0)]]

\* lines 285-289: the edges [lo, hi) of the fullest bin
consensus_bin(vals, bin_width_sec) ==
    LET vmin  == seq_min(vals).n
        vmax  == seq_max(vals).n
        bins  == arange(vmin - bin_width_sec, vmax + 2 * bin_width_sec, bin_width_sec)
        k     == argmax(histogram(vals, bins))
    IN  [lo |-> bins[k], hi |-> bins[k + 1]]

\* the consensus group with the upper edge of the bin taken in
consensus_group_closed_bin(st, et, start_off0, lo, hi) ==
    LET in_consensus == {i \in Indices(st) : RGe(start_off0[i], R(lo)) /\ RLe(start_off0[i], R(hi))}
        both == {i \in in_consensus : ~isnat(st[i]) /\ ~isnat(et[i])}
    IN  IF both # {} THEN both ELSE {i \in in_consensus : ~isnat(st[i])}

\* the consensus group without the relaxation of line 294
consensus_group_no_fallback(st, et, start_off0, lo, hi) ==
    {i \in Indices(st) : /\ RGe(start_off0[i], R(lo)) /\ RLt(start_off0[i], R(hi))
                         /\ ~isnat(st[i]) /\ ~isnat(et[i])}

\* lines 290-294: the consensus group of the bin [lo, hi)
consensus_group(st, et, start_off0, lo, hi) ==
    LET in_consensus == {i \in Indices(st) : RGe(start_off0[i], R(lo)) /\ RLt(start_off0[i], R(hi))}
        both == {i \in in_consensus : ~isnat(st[i]) /\ ~isnat(et[i])}
    IN  IF both # {} THEN both ELSE {i \in in_consensus : ~isnat(st[i])}

\* st[idx]: the entries of st at the indices in idx
RECURSIVE Take(_, _, _)
Take(ts, idx, j) ==
    IF j > Len(ts) THEN <<>>
    ELSE (IF j \in idx THEN <<ts[j]>> ELSE <<>>) \o Take(ts, idx, j + 1)

\* drift without the (dur > 0) test of line 309
drift_rate_any_duration(start_off, end_off, dur) ==
    IF isfinite(start_off) /\ isfinite(end_off) /\ isfinite(dur)
    THEN RMul(RDiv(RSub(end_off, start_off), dur), R(86400))
    ELSE NaN

\* lines 306-310: drift in seconds per day, NaN unless ok
drift_rate(start_off, end_off, dur) ==
    IF isfinite(start_off) /\ isfinite(end_off) /\ isfinite(dur) /\ RGt(dur, R(0))
    THEN RMul(RDiv(RSub(end_off, start_off), dur), R(86400))
    ELSE NaN

\* offsets against the naive references of lines 272-273 instead of lines 297-298
offsets_from_naive_refs(st, et, idx_consensus) ==
    LET ref_start == dt_min(st)
        ref_end   == dt_max(et)
        start_off == [i \in Indices(st) |-> seconds_between(st[i], ref_start)]
        end_off   == [i \in Indices(st) |-> seconds_between(et[i], ref_end)]
    IN  [start_offsets |-> start_off,
         end_offsets   |-> end_off,
         avg_offsets   |-> [i \in Indices(st) |-> RDiv(RAdd(start_off[i], end_off[i]), R(2))],
         diff_offsets  |-> [i \in Indices(st) |-> RSub(start_off[i], end_off[i])],
         drift_rates   |-> [i \in Indices(st) |-> drift_rate(start_off[i], end_off[i], seconds_between(et[i], st[i]))],
         consensus_indices |-> idx_consensus,
         ref_start |-> ref_start,
         ref_end   |-> ref_end]

\* lines 296-321: references from the consensus group, offsets of every level
offsets_from(st, et, idx_consensus) ==
    LET ref_start == dt_min(Take(st, idx_consensus, 1))
        ref_end   == dt_max(Take(et, idx_consensus, 1))
        start_off == [i \in Indices(st) |-> seconds_between(st[i], ref_start)]
        end_off   == [i \in Indices(st) |-> seconds_between(et[i], ref_end)]
    IN  [start_offsets |-> start_off,
         end_offsets   |-> end_off,
         avg_offsets   |-> [i \in Indices(st) |-> RDiv(RAdd(start_off[i], end_off[i]), R(2))],
         diff_offsets  |-> [i \in Indices(st) |-> RSub(start_off[i], end_off[i])],
         drift_rates   |-> [i \in Indices(st) |-> drift_rate(start_off[i], end_off[i], seconds_between(et[i], st[i]))],
         consensus_indices |-> idx_consensus,
         ref_start |-> ref_start,
         ref_end   |-> ref_end]

(* Inputs of calculate_timing_offsets *)
MaxConsensusLevels == 3
BinWidths == {40, 60}
StartTimes == {NaT, 0, 30, 60, 100}
EndTimes == {NaT, 60, 530}

\* calculate_timing_offsets(combined_ds, bin_width_sec)
TimingOffsetsCall ==
    /\ start_time.present /\ end_time.present
    /\ \E bin_width_sec \in BinWidths :
          /\ call' = [NoCall EXCEPT !.name = "calculate_timing_offsets",
                                    !.bin_width_sec = bin_width_sec]
          /\ LET st   == start_time.values
                 et   == end_time.values
                 off0 == naive_offsets(st, et).start_off0
                 vals == Finite(off0)
             IN  IF Len(vals) = 0
                 THEN /\ exc' = "RuntimeError"
                      /\ pc' = "raised"
                      /\ offset_results' = NoOffsets
                 ELSE /\ exc' = "none"
                      /\ pc' = "returned"
                      /\ LET bin == consensus_bin(vals, bin_width_sec)
                         IN  offset_results' =
                               offsets_from(st, et, consensus_group(st, et, off0, bin.lo, bin.hi))
    /\ passed' = Dataset
    /\ UNCHANGED <<result, suggestion, shape, time, temperature, clock_offset, start_time, end_time,
                   split_value, lvl, locals, deep_is_below, lag_results>>

CalculateTimingOffsets == pc = "idle" /\ TimingOffsetsCall

\* the caller of find_deployment going on to calculate_timing_offsets with the
\* dataset find_deployment returned
OffsetsAfterDeployment ==
    /\ pc = "returned"
    /\ call.name = "find_deployment"
    /\ TimingOffsetsCall

(* Datasets calculate_timing_offsets is run on: start_time and end_time as a
   detection (or an operator) left them *)

InitConsensus ==
    /\ \E N \in 0..MaxConsensusLevels :
          /\ start_time \in {Present(v) : v \in [1..N -> StartTimes]}
          /\ end_time \in {Present(v) : v \in [1..N -> EndTimes]}
          /\ split_value = Present([k \in 1..N |-> NaNThreshold])
          /\ temperature = [k \in 1..N |-> <<>>]
          /\ clock_offset = [k \in 1..N |-> 0]
    /\ time = <<>>
    /\ shape = GoodShape
    /\ AtRest

NextConsensus == CalculateTimingOffsets

SpecConsensus == InitConsensus /\ [][NextConsensus]_vars

-----------------------------------------------------------------------------
(* clock_offset.py: suggest_reference_instrument *)

\* np.abs
RAbs(x) == IF isnan(x) THEN NaN ELSE [n |-> Abs(x.n), d |-> x.d]

\* np.argmin with the last minimum taken
RECURSIVE argmin_last(_)
argmin_last(v) ==
    IF Len(v) = 1 THEN 1
    ELSE LET rest == 1 + argmin_last(Tail(v))
         IN  IF RLt(v[1], v[rest]) THEN 1 ELSE rest

\* np.argmin: index (1-based here) of the first minimum of finite floats
RECURSIVE argmin(_)
argmin(v) ==
    IF Len(v) = 1 THEN 1
    ELSE LET rest == 1 + argmin(Tail(v))
         IN  IF RLe(v[1], v[rest]) THEN 1 ELSE rest

\* np.where(mask)[0] as 0-based level indices
RECURSIVE where_indices(_, _)
where_indices(mask, j) ==
    IF j > Len(mask) THEN <<>>
    ELSE (IF mask[j] THEN <<j - 1>> ELSE <<>>) \o where_indices(mask, j + 1)

\* suggest_reference_instrument(combined_ds, offset_results)
suggest_reference_instrument(avg_offsets) ==
    LET abs_offsets == [i \in Indices(avg_offsets) |-> RAbs(avg_offsets[i])]
        finite_mask == [i \in Indices(avg_offsets) |-> isfinite(abs_offsets[i])]
        finite_indices == where_indices(finite_mask, 1)
        min_abs_idx == finite_indices[argmin(Masked(abs_offsets, finite_mask, 1))]
    IN  IF \A i \in Indices(avg_offsets) : ~finite_mask[i]
        THEN [suggested_index |-> 0, reason |-> "fallback - no finite offsets"]
        ELSE [suggested_index |-> min_abs_idx,
              offset_seconds |-> avg_offsets[min_abs_idx + 1],
              abs_offset_seconds |-> abs_offsets[min_abs_idx + 1],
              reason |-> "smallest absolute average timing offset"]

SuggestCall ==
    /\ call' = [NoCall EXCEPT !.name = "suggest_reference_instrument"]
    /\ suggestion' = suggest_reference_instrument(offset_results.avg_offsets)
    /\ pc' = "returned"
    /\ passed' = Dataset
    /\ UNCHANGED <<result, shape, time, temperature, clock_offset, start_time, end_time,
                   split_value, lvl, exc, locals, deep_is_below, offset_results,
                   lag_results>>

SuggestReferenceInstrument == pc = "idle" /\ SuggestCall

\* the caller handing the result of calculate_timing_offsets on
SuggestAfterOffsets ==
    /\ pc = "returned"
    /\ call.name = "calculate_timing_offsets"
    /\ SuggestCall

(* The offset_results suggest_reference_instrument is run on *)
MaxSuggestLevels == 4
AvgOffsets == {NaN, R(-20), R(-5), R(-1), R(1), R(5), R(20)}

InitSuggest ==
    /\ shape = GoodShape
    /\ time = <<>>
    /\ \E N \in 0..MaxSuggestLevels :
          /\ temperature = [k \in 1..N |-> <<>>]
          /\ clock_offset = [k \in 1..N |-> 0]
          /\ start_time = Absent /\ end_time = Absent /\ split_value = Absent
          /\ \E avg \in [1..N -> AvgOffsets] :
                offset_results = [NoOffsets EXCEPT !.avg_offsets = avg]
    /\ suggestion = NoSuggestion
    /\ result = NoResult
    /\ passed = Dataset
    /\ call = NoCall
    /\ pc = "idle"
    /\ lvl = 0
    /\ exc = "none"
    /\ locals = NoLocals
    /\ deep_is_below = <<>>
    /\ lag_results = NoLags

NextSuggest == SuggestReferenceInstrument

SpecSuggest == InitSuggest /\ [][NextSuggest]_vars

-----------------------------------------------------------------------------
(* tools.py: lag_correlation *)

\* the default of the min_overlap parameter
default_min_overlap == 10

\* A correlation r is kept as its sign s and its square q (q = NaN for r = NaN)
NaNCorr == [s |-> 0, q |-> NaN]
Sign(k) == IF k > 0 THEN 1 ELSE IF k < 0 THEN -1 ELSE 0

\* a/b < c/d for a, c >= 0 and b, d > 0, by continued fractions
RECURSIVE FracLt(_, _, _, _)
FracLt(a, b, c, d) ==
    IF a \div b # c \div d THEN a \div b < c \div d
    ELSE IF c % d = 0 THEN FALSE
    ELSE IF a % b = 0 THEN TRUE
    ELSE FracLt(d, c % d, b, a % b)

\* r1 < r2 for two correlations that are not NaN
CorrLt(r1, r2) ==
    IF r1.s # r2.s THEN r1.s < r2.s
    ELSE IF r1.s = 0 THEN FALSE
    ELSE IF r1.s = 1 THEN FracLt(r1.q.n, r1.q.d, r2.q.n, r2.q.d)
    ELSE FracLt(r2.q.n, r2.q.d, r1.q.n, r1.q.d)

NoPairs == [k |-> 0, sx |-> R(0), sy |-> R(0), sxx |-> R(0), syy |-> R(0), sxy |-> R(0)]

\* the sums over the jointly present pairs (x[j + lag], y[j]), j in lo..hi
RECURSIVE PairSums(_, _, _, _, _)
PairSums(x, y, lag, lo, hi) ==
    IF lo > hi THEN NoPairs
    ELSE IF lo = hi
    THEN LET a == x[lo + lag]
             b == y[lo]
         IN  IF isnan(a) \/ isnan(b) THEN NoPairs
             ELSE [k |-> 1, sx |-> a, sy |-> b,
                   sxx |-> RMul(a, a), syy |-> RMul(b, b), sxy |-> RMul(a, b)]
    ELSE LET mid == (lo + hi) \div 2
             l == PairSums(x, y, lag, lo, mid)
             r == PairSums(x, y, lag, mid + 1, hi)
         IN  [k   |-> l.k + r.k,
              sx  |-> RAdd(l.sx, r.sx),
              sy  |-> RAdd(l.sy, r.sy),
              sxx |-> RAdd(l.sxx, r.sxx),
              syy |-> RAdd(l.syy, r.syy),
              sxy |-> RAdd(l.sxy, r.sxy)]

\* lines 35-40: Pearson correlation of the pairs summed in p; with
\* xc = xs - mean(xs), yc = ys - mean(ys): k^2 mean(xc yc) = k sxy - sx sy and
\* k^2 std(xc)^2 = k sxx - sx^2
pearson(p, min_overlap) ==
    IF p.k < min_overlap THEN NaNCorr
    ELSE LET kk  == R(p.k)
             cov == RSub(RMul(kk, p.sxy), RMul(p.sx, p.sy))
             vx  == RSub(RMul(kk, p.sxx), RMul(p.sx, p.sx))
             vy  == RSub(RMul(kk, p.syy), RMul(p.sy, p.sy))
         IN  IF vx.n > 0 /\ vy.n > 0
             THEN [s |-> Sign(cov.n), q |-> RDiv(RMul(cov, cov), RMul(vx, vy))]
             ELSE NaNCorr

\* the pairs taken in the opposite direction: x[j] with y[j + lag]
lag_correlation_reversed(x, y, max_lag, min_overlap) ==
    IF Len(x) # Len(y) THEN [exc |-> "ValueError", corrs |-> <<>>]
    ELSE [exc |-> "none",
          corrs |-> [k \in 1..(2 * max_lag + 1) |->
                        LET lag == k - 1 - max_lag
                        IN  pearson(PairSums(y, x, lag, Max(1, 1 - lag), Min(Len(x), Len(y) - lag)), min_overlap)]]

\* lag_correlation(x, y, max_lag, min_overlap): entry k (1-based) is the lag
\* k - 1 - max_lag; lag < 0 pairs x[:lag] with y[-lag:], lag > 0 pairs x[lag:]
\* with y[:-lag]
lag_correlation(x, y, max_lag, min_overlap) ==
    IF Len(x) # Len(y) THEN [exc |-> "ValueError", corrs |-> <<>>]
    ELSE [exc |-> "none",
          corrs |-> [k \in 1..(2 * max_lag + 1) |->
                        LET lag == k - 1 - max_lag
                        IN  pearson(PairSums(x, y, lag, Max(1, 1 - lag), Min(Len(y), Len(x) - lag)), min_overlap)]]

(* Inputs of a direct call of lag_correlation *)
MaxCorrLen == 3
CorrValues == {NaN, R(0), R(1)}
CorrSeries == UNION {[1..n -> CorrValues] : n \in 1..MaxCorrLen}
CorrMaxLags == {0, 1, 2}
CorrMinOverlaps == {1, 2, 3}

\* lag_correlation(x, y, max_lag, min_overlap) called on two arrays
LagCorrelation ==
    /\ pc = "idle"
    /\ \E x \in CorrSeries, y \in CorrSeries, max_lag \in CorrMaxLags, m \in CorrMinOverlaps :
          /\ call' = [NoCall EXCEPT !.name = "lag_correlation", !.x = x, !.y = y,
                                    !.max_lag = max_lag, !.min_overlap = m]
          /\ LET r == lag_correlation(x, y, max_lag, m)
             IN  /\ exc' = r.exc
                 /\ pc' = IF r.exc = "none" THEN "returned" ELSE "raised"
                 /\ locals' = [locals EXCEPT !.corrs_sub = r.corrs]
    /\ passed' = Dataset
    /\ UNCHANGED <<result, suggestion, shape, time, temperature, clock_offset, start_time, end_time,
                   split_value, lvl, deep_is_below, offset_results, lag_results>>

InitCorr ==
    /\ shape = GoodShape
    /\ time = <<>>
    /\ temperature = <<>>
    /\ clock_offset = <<>>
    /\ start_time = Absent /\ end_time = Absent /\ split_value = Absent
    /\ AtRest

NextCorr == LagCorrelation

SpecCorr == InitCorr /\ [][NextCorr]_vars

-----------------------------------------------------------------------------
(* clock_offset.py: perform_lag_correlation_analysis *)

(* Inputs of perform_lag_correlation_analysis *)
MaxLagLevels == 2
ExampleLen == 500
SubSamples == {1, 2}
LagLens == {6, 15, 20}
LagSteps == {60, 600}
LagClockOffsets == {0, 30}

\* x[::stride]
Stride(x, stride) == [k \in 1..((Len(x) + stride - 1) \div stride) |-> x[(k - 1) * stride + 1]]

\* np.diff(time) / np.timedelta64(1, "s")
diff_seconds(t) == [j \in 1..(IF Len(t) = 0 THEN 0 ELSE Len(t) - 1) |-> seconds_between(t[j + 1], t[j])]

\* np.arange(-max_lag_sub, max_lag_sub + 1)[idx], idx 1-based here
lags_sub(max_lag_sub, idx) == idx - 1 - max_lag_sub

\* the first index in lo..hi holding a largest non-NaN entry of corrs, 0 for none
RECURSIVE nanargmax_in(_, _, _)
nanargmax_in(corrs, lo, hi) ==
    IF lo > hi THEN 0
    ELSE IF lo = hi THEN (IF isnan(corrs[lo].q) THEN 0 ELSE lo)
    ELSE LET mid == (lo + hi) \div 2
             l == nanargmax_in(corrs, lo, mid)
             r == nanargmax_in(corrs, mid + 1, hi)
         IN  IF l = 0 THEN r
             ELSE IF r = 0 THEN l
             ELSE IF CorrLt(corrs[l], corrs[r]) THEN r ELSE l

\* np.nanargmax: raises ValueError on an all-NaN array
nanargmax(corrs) ==
    LET idx == nanargmax_in(corrs, 1, Len(corrs))
    IN  [exc |-> IF idx = 0 THEN "ValueError" ELSE "none", idx |-> idx]

ref_temp_sub == Stride(temperature[call.ref_index + 1], call.sub_sample)

\* lines 342-361
LagCallOn(ref_index, sub_sample) ==
    /\ shape = GoodShape
    /\ call' = [NoCall EXCEPT !.name = "perform_lag_correlation_analysis",
                              !.ref_index = ref_index, !.sub_sample = sub_sample]
    /\ lag_results' =
          [NoLags EXCEPT !.time_interval = nanmedian(diff_seconds(time)),
                         !.max_lag_sub = Len(Stride(temperature[ref_index + 1], sub_sample)) \div 5]
    /\ passed' = Dataset
    /\ lvl' = 0
    /\ pc' = "lag_loop"
    /\ UNCHANGED <<result, suggestion, shape, time, temperature, clock_offset, start_time, end_time,
                   split_value, exc, locals, deep_is_below, offset_results>>

\* perform_lag_correlation_analysis(combined_ds, ref_index, sub_sample)
LagCall == \E ref_index \in 0..(nlev - 1), sub_sample \in SubSamples : LagCallOn(ref_index, sub_sample)

LagStart == pc = "idle" /\ LagCall

\* the caller going on to the lag analysis with the offsets still at hand
LagAfterOffsets ==
    /\ pc = "returned"
    /\ call.name = "calculate_timing_offsets"
    /\ LagCall

\* lines 363-367: the correlations of level i with the reference
LagCorrelate ==
    /\ pc = "lag_loop"
    /\ lvl < nlev
    /\ LET temp_i_sub == Stride(temperature[lvl + 1], call.sub_sample)
           r == lag_correlation(ref_temp_sub, temp_i_sub, lag_results.max_lag_sub, default_min_overlap)
       IN  /\ locals' = [locals EXCEPT !.corrs_sub = r.corrs]
           /\ exc' = r.exc
           /\ pc' = IF r.exc = "none" THEN "lag_pick" ELSE "raised"
    /\ UNCHANGED <<result, suggestion, shape, time, temperature, clock_offset, start_time, end_time,
                   split_value, passed, call, lvl, deep_is_below, offset_results,
                   lag_results>>

\* LagPick shifting the time axis by the lag it found
LagPickShiftingTime ==
    /\ pc = "lag_pick"
    /\ LET max_corr_idx == nanargmax(locals.corrs_sub)
           max_lag == lags_sub(lag_results.max_lag_sub, max_corr_idx.idx)
           dt_sub == RMul(R(call.sub_sample), lag_results.time_interval)
       IN  IF max_corr_idx.exc # "none"
           THEN /\ exc' = max_corr_idx.exc
                /\ pc' = "raised"
                /\ UNCHANGED <<lvl, lag_results>>
           ELSE /\ lag_results' =
                     [lag_results EXCEPT
                        !.lags = Append(@, max_lag),
                        !.correlations = Append(@, locals.corrs_sub),
                        !.max_correlations = Append(@, locals.corrs_sub[max_corr_idx.idx]),
                        !.clock_offsets = Append(@, RAdd(RMul(R(max_lag), dt_sub), R(clock_offset[lvl + 1])))]
                /\ lvl' = lvl + 1
                /\ pc' = "lag_loop"
                /\ UNCHANGED exc
    /\ time' = LET idx == nanargmax(locals.corrs_sub)
               IN  IF idx.exc # "none" THEN time
                   ELSE [k \in DOMAIN time |->
                           time[k] + lags_sub(lag_results.max_lag_sub, idx.idx)]
    /\ UNCHANGED <<result, suggestion, shape, temperature, clock_offset, start_time, end_time,
                   split_value, passed, call, locals, deep_is_below, offset_results>>

\* lines 369-378: the best lag of level i and its offset estimate
LagPick ==
    /\ pc = "lag_pick"
    /\ LET max_corr_idx == nanargmax(locals.corrs_sub)
           max_lag == lags_sub(lag_results.max_lag_sub, max_corr_idx.idx)
           dt_sub == RMul(R(call.sub_sample), lag_results.time_interval)
       IN  IF max_corr_idx.exc # "none"
           THEN /\ exc' = max_corr_idx.exc
                /\ pc' = "raised"
                /\ UNCHANGED <<lvl, lag_results>>
           ELSE /\ lag_results' =
                     [lag_results EXCEPT
                        !.lags = Append(@, max_lag),
                        !.correlations = Append(@, locals.corrs_sub),
                        !.max_correlations = Append(@, locals.corrs_sub[max_corr_idx.idx]),
                        !.clock_offsets = Append(@, RAdd(RMul(R(max_lag), dt_sub), R(clock_offset[lvl + 1])))]
                /\ lvl' = lvl + 1
                /\ pc' = "lag_loop"
                /\ UNCHANGED exc
    /\ UNCHANGED <<result, suggestion, shape, time, temperature, clock_offset, start_time, end_time,
                   split_value, passed, call, locals, deep_is_below, offset_results>>

\* line 380
LagReturn ==
    /\ pc = "lag_loop"
    /\ lvl = nlev
    /\ pc' = "returned"
    /\ UNCHANGED <<result, suggestion, shape, time, temperature, clock_offset, start_time, end_time,
                   split_value, passed, call, lvl, exc, locals, deep_is_below,
                   offset_results, lag_results>>

(* Datasets perform_lag_correlation_analysis is run on: every level holds the
   same signal, as it is, three samples early or three samples late, or holds
   nothing, or a constant *)

Spikes == {4, 7, 8, 13, 16}
Signal(j) == IF j \in Spikes THEN R(1) ELSE R(0)
LevelKinds == {"same", "early", "late", "nan", "const"}
Series(kind, n) ==
    [j \in 1..n |->
        CASE kind = "same"  -> Signal(j)
          [] kind = "early" -> Signal(j + 3)
          [] kind = "late"  -> Signal(j - 3)
          [] kind = "nan"   -> NaN
          [] kind = "const" -> R(5)]
TimeGrid(n, dt) == [j \in 1..n |-> (j - 1) * dt]

LagDataset ==
    \E N \in 1..MaxLagLevels, n \in LagLens, dt \in LagSteps, c \in LagClockOffsets :
        /\ time = TimeGrid(n, dt)
        /\ temperature \in {[k \in 1..N |-> Series(kinds[k], n)] : kinds \in [1..N -> LevelKinds]}
        /\ clock_offset = [k \in 1..N |-> IF k = N THEN c ELSE 0]

\* the two 500-sample series, level 1 being level 0 three samples early (and
\* so level 0 being level 1 three samples late)
ExampleDataset ==
    /\ time = TimeGrid(ExampleLen, 60)
    /\ temperature = <<Series("same", ExampleLen), Series("early", ExampleLen)>>
    /\ clock_offset = <<0, 0>>

InitLag ==
    /\ shape = GoodShape
    /\ LagDataset \/ ExampleDataset
    /\ start_time = Absent /\ end_time = Absent /\ split_value = Absent
    /\ AtRest

NextLag == LagStart \/ LagCorrelate \/ LagPick \/ LagReturn

SpecLag == InitLag /\ [][NextLag]_vars

-----------------------------------------------------------------------------
(* The lag analysis on series that repeat *)

SelfLen == 24
SelfPeriods == {0, 2, 3, 4}

\* a series of period p (a sample of 1.0 every p samples), the irregular
\* series for p = 0
PeriodicSeries(p, n) ==
    [j \in 1..n |-> IF p = 0 THEN Signal(j) ELSE IF j % p = 0 THEN R(1) ELSE R(0)]

InitSelf ==
    /\ shape = GoodShape
    /\ time = TimeGrid(SelfLen, 60)
    /\ \E p \in SelfPeriods, q \in SelfPeriods, gap \in {0, 5} :
          temperature = <<[j \in 1..SelfLen |-> IF j = gap THEN NaN ELSE PeriodicSeries(p, SelfLen)[j]],
                          PeriodicSeries(q, SelfLen)>>
    /\ clock_offset \in {<<0, 0>>, <<30, 0>>}
    /\ start_time = Absent /\ end_time = Absent /\ split_value = Absent
    /\ AtRest

NextSelf == LagStart \/ LagCorrelate \/ LagPick \/ LagReturn

SpecSelf == InitSelf /\ [][NextSelf]_vars

-----------------------------------------------------------------------------
(* Deployment detection followed by the consensus: instruments on a common
   one-minute grid, warm on deck at both ends of the record and cold in between *)

ScenarioLen == 1000
ScenarioDeck == 50
ScenarioShifts == {0, 2}

\* 20.0 up to sample ScenarioDeck + d and from the last ScenarioDeck - d samples on
ScenarioSeries(d) ==
    [j \in 1..ScenarioLen |->
        IF j <= ScenarioDeck + d \/ j > ScenarioLen - ScenarioDeck + d THEN R(20) ELSE R(5)]

InitScenario ==
    /\ shape = GoodShape
    /\ time = TimeGrid(ScenarioLen, 60)
    /\ \E d \in ScenarioShifts :
          temperature = <<ScenarioSeries(0), ScenarioSeries(0), ScenarioSeries(d)>>
    /\ clock_offset = <<0, 0, 0>>
    /\ start_time = Absent /\ end_time = Absent /\ split_value = Absent
    /\ AtRest

NextScenario ==
    \/ FDStart \/ FDWindow \/ FDSea \/ FDThreshold \/ FDSearch \/ FDAssign \/ FDReturn
    \/ OffsetsAfterDeployment

SpecScenario == InitScenario /\ [][NextScenario]_vars

-----------------------------------------------------------------------------
(* Both estimators on a dataset whose last level is the reference delayed *)

SignLen == 30
SignDeck == 6
SignDelays == {1, 2, 3}

\* 1.0 on deck, 0.0 at depth; with delay d every value comes d samples later
DelayedSeries(d) ==
    [j \in 1..SignLen |->
        IF j <= SignDeck + d \/ j > SignLen - SignDeck + d THEN R(1) ELSE R(0)]

InitSign ==
    /\ shape = GoodShape
    /\ time = TimeGrid(SignLen, 60)
    /\ \E d \in SignDelays :
          temperature = <<DelayedSeries(0), DelayedSeries(0), DelayedSeries(d)>>
    /\ clock_offset = <<0, 0, 0>>
    /\ start_time = Absent /\ end_time = Absent /\ split_value = Absent
    /\ AtRest

NextSign ==
    \/ FDStart \/ FDWindow \/ FDSea \/ FDThreshold \/ FDSearch \/ FDAssign \/ FDReturn
    \/ OffsetsAfterDeployment
    \/ LagAfterOffsets \/ LagCorrelate \/ LagPick \/ LagReturn

SpecSign == InitSign /\ [][NextSign]_vars

-----------------------------------------------------------------------------
(* find_deployment on a dataset that may hold annotations already *)

RerunLen == 2
StaleSplit == Threshold(R(7), 1, R(0))

\* no annotation, annotations of sentinels, or annotations of some other values
InitRerun ==
    /\ GoodDataset
    /\ Len(time) <= RerunLen
    /\ \/ start_time = Absent /\ end_time = Absent /\ split_value = Absent
       \/ /\ start_time = Present([k \in 1..nlev |-> NaT])
          /\ end_time = Present([k \in 1..nlev |-> NaT])
          /\ split_value = Present([k \in 1..nlev |-> NaNThreshold])
       \/ /\ start_time = Present([k \in 1..nlev |-> 0])
          /\ end_time = Present([k \in 1..nlev |-> 48 * Hour])
          /\ split_value = Present([k \in 1..nlev |-> StaleSplit])
    /\ AtRest

NextRerun ==
    FDStart \/ FDWindow \/ FDSea \/ FDThreshold \/ FDSearch \/ FDAssign \/ FDReturn

SpecRerun == InitRerun /\ [][NextRerun]_vars

-----------------------------------------------------------------------------
(* The four operations called one after the other on one dataset *)

\* a call has returned or raised: its caller drops what it returned and goes on
\* with the dataset as the call left it
CallerProceeds ==
    /\ pc \in {"returned", "raised"}
    /\ pc' = "idle"
    /\ call' = NoCall
    /\ exc' = "none"
    /\ lvl' = 0
    /\ locals' = NoLocals
    /\ deep_is_below' = <<>>
    /\ offset_results' = NoOffsets
    /\ lag_results' = NoLags
    /\ suggestion' = NoSuggestion
    /\ passed' = Dataset
    /\ UNCHANGED <<result, shape, time, temperature, clock_offset, start_time, end_time,
                   split_value>>

CoreLen == 15

InitCore ==
    /\ shape = GoodShape
    /\ time = TimeGrid(CoreLen, 60)
    /\ \E N \in 1..MaxLagLevels, c \in LagClockOffsets :
          /\ temperature \in {[k \in 1..N |-> Series(kinds[k], CoreLen)] : kinds \in [1..N -> LevelKinds]}
          /\ clock_offset = [k \in 1..N |-> IF k = N THEN c ELSE 0]
    /\ start_time = Absent /\ end_time = Absent /\ split_value = Absent
    /\ AtRest

NextCore ==
    \/ FDStart \/ FDWindow \/ FDSea \/ FDThreshold \/ FDSearch \/ FDAssign \/ FDReturn
    \/ CalculateTimingOffsets
    \/ SuggestAfterOffsets
    \/ LagStart \/ LagCorrelate \/ LagPick \/ LagReturn
    \/ CallerProceeds

SpecCore == InitCore /\ [][NextCore]_vars

-----------------------------------------------------------------------------
(* find_deployment called with tuning arguments *)

TunedLen == 4
TunedSteps == {24 * Hour, 48 * Hour}
InitTuned ==
    /\ shape = GoodShape
    /\ time \in {Cumulate(steps, 1, 0) : steps \in [1..(TunedLen - 1) -> TunedSteps]}
    /\ temperature \in [1..1 -> [1..TunedLen -> TempValues]]
    /\ clock_offset = <<0>>
    /\ start_time = Absent /\ end_time = Absent /\ split_value = Absent
    /\ AtRest

NextTuned ==
    FDStartTuned \/ FDWindow \/ FDSea \/ FDThreshold \/ FDSearch \/ FDAssign \/ FDReturn

SpecTuned == InitTuned /\ [][NextTuned]_vars

-----------------------------------------------------------------------------
(* Properties of find_deployment *)

InFindDeployment == call.name = "find_deployment"

\* indices of series y that are finite and strictly below thr
BelowSet(y, thr) == {j \in 1..Len(y) : isfinite(y[j]) /\ BelowThreshold(y[j], thr)}
MinOf(S) == CHOOSE a \in S : \A b \in S : a <= b
MaxOf(S) == CHOOSE a \in S : \A b \in S : a >= b

\* (sink, float) is (time[a], time[b]) for the smallest index a and the largest
\* index b of y below thr, and (NaT, NaT) when no index is below thr
IsEntryExit(y, thr, sink, float) ==
    IF BelowSet(y, thr) = {}
    THEN isnat(sink) /\ isnat(float)
    ELSE sink = time[MinOf(BelowSet(y, thr))] /\ float = time[MaxOf(BelowSet(y, thr))]

\* C1: the boundary search returns (time[a], time[b]) for the smallest index a
\* and the largest index b whose value is finite and strictly below the
\* threshold, for both values of deep_is_below, and (NaT, NaT) when no index
\* qualifies; the values written for each processed level are those.
C1_EntryExitIsFirstAndLastBelow ==
    InFindDeployment =>
        /\ pc = "assign" =>
              IsEntryExit(temperature[lvl + 1], locals.thr,
                          locals.sink_time, locals.float_time)
        /\ pc \in {"loop", "returned"} =>
              \A k \in 1..lvl :
                  IsEntryExit(temperature[k], split_value.values[k],
                              start_time.values[k], end_time.values[k])

\* a level whose threshold has deep_is_below = FALSE and whose below-threshold
\* samples are still what is found: first and last of them differ
C1_Witness ==
    /\ InFindDeployment
    /\ pc = "returned"
    /\ \E k \in 1..nlev :
          /\ deep_is_below[k] = FALSE
          /\ ~isnat(start_time.values[k])
          /\ start_time.values[k] < end_time.values[k]
          /\ Cardinality(BelowSet(temperature[k], split_value.values[k])) = 2

RECURSIVE NonDecreasing(_)
NonDecreasing(t) ==
    Len(t) <= 1 \/ (t[1] <= t[2] /\ NonDecreasing(Tail(t)))

\* C2: after find_deployment returns on a non-decreasing time axis, each level
\* has start_time and end_time both NaT or both finite, and then
\* start_time <= end_time.
C2_StartNotAfterEnd ==
    (InFindDeployment /\ pc = "returned" /\ NonDecreasing(time)) =>
        \A k \in 1..nlev :
            /\ isnat(start_time.values[k]) <=> isnat(end_time.values[k])
            /\ ~isnat(start_time.values[k]) =>
                  start_time.values[k] <= end_time.values[k]

\* two levels returned: one without any boundary, one with start before end
C2_Witness ==
    /\ InFindDeployment
    /\ pc = "returned"
    /\ \E k, m \in 1..nlev :
          /\ isnat(start_time.values[k]) /\ isnat(end_time.values[k])
          /\ ~isnat(start_time.values[m])
          /\ start_time.values[m] < end_time.values[m]

StructureIsBad(sh) ==
    \/ ~sh.has_var
    \/ sh.dims # <<"time", "N_LEVELS">>
    \/ "N_LEVELS" \notin sh.sizes

\* C7: find_deployment raises ValueError when the variable is absent, when its
\* dims are not exactly (time, N_LEVELS) or when N_LEVELS is missing, and the
\* dataset is then exactly the one passed in: no output variable was created.
C7_ValueErrorLeavesDatasetUnchanged ==
    (InFindDeployment /\ StructureIsBad(passed.shape)) =>
        /\ pc = "raised"
        /\ exc = "ValueError"
        /\ Dataset = passed
        /\ start_time = Absent /\ end_time = Absent /\ split_value = Absent

\* the transposed variable is refused
C7_Witness ==
    /\ InFindDeployment
    /\ exc = "ValueError"
    /\ shape.has_var
    /\ shape.dims = <<"N_LEVELS", "time">>
    /\ ~start_time.present

\* C8: once the structural validation has passed, nothing raises, whatever the
\* series and the time axis (the empty axis included).
C8_NoRaiseAfterValidation ==
    (InFindDeployment /\ ~StructureIsBad(passed.shape)) => exc = "none"

\* what find_deployment called with c writes for a level whose series is y, on
\* the time axis t
LevelAnnotation(t, y, c) ==
    LET bot == likely_at_bottom_window(t, c.bottom_strategy, c.bottom_margin_hours, c.bottom_inner_fraction, Some(t[1]), Some(t[Len(t)]), c.deployment_margin_hours)
        sea == determine_sea_values(t, y, bot.start, bot.end)
        r   == compute_threshold_sigma_band(t, y, sea.mean, sea.std_sq, Rat(3, 2), Rat(1, 10), "auto", 24, 9, 90)
        se  == find_entry_exit_from_threshold(t, y, r.threshold)
    IN  [start_time |-> se.sink_time, end_time |-> se.float_time,
         split_value |-> IF ThresholdIsFinite(r.threshold) THEN r.threshold ELSE NaNThreshold]

Annotation(st, et, sv, k) ==
    [start_time |-> st.values[k], end_time |-> et.values[k], split_value |-> sv.values[k]]

InLevelLoop ==
    /\ InFindDeployment
    /\ pc \in {"loop", "sea", "threshold", "search", "assign"}

-----------------------------------------------------------------------------
(* Properties of calculate_timing_offsets *)

InTimingOffsets == call.name = "calculate_timing_offsets"
TimingReturned == InTimingOffsets /\ pc = "returned"

st_in == passed.start_time.values
et_in == passed.end_time.values
Levels == 1..Len(st_in)
FiniteStarts == {i \in Levels : ~isnat(st_in[i])}

\* C3: RuntimeError when every start_time is NaT; with at least one finite
\* start_time the call returns and consensus_indices is not empty.
C3_RuntimeErrorOrNonEmptyConsensus ==
    InTimingOffsets =>
        IF FiniteStarts = {}
        THEN pc = "raised" /\ exc = "RuntimeError"
        ELSE pc = "returned" /\ exc = "none" /\ offset_results.consensus_indices # {}

\* a consensus formed by the relaxed rule: no level of the input has a finite end
C3_Witness ==
    /\ TimingReturned
    /\ \E i \in Levels : isnat(st_in[i])
    /\ \A i \in Levels : isnat(et_in[i])
    /\ offset_results.consensus_indices # {}

\* naive start offset of level i: seconds after the earliest finite start
NaiveStart(i) == st_in[i] - MinOf({st_in[j] : j \in FiniteStarts})
\* levels whose naive start offset lies in bin j, bin 0 starting one width
\* below the smallest naive offset
InBin(j) ==
    {i \in FiniteStarts :
        /\ NaiveStart(i) >= (j - 1) * call.bin_width_sec
        /\ NaiveStart(i) <  j * call.bin_width_sec}
BinNumbers == 0..((MaxOf({NaiveStart(i) : i \in FiniteStarts}) \div call.bin_width_sec) + 2)
IsFullestBin(j) ==
    /\ \A m \in BinNumbers : Cardinality(InBin(m)) <= Cardinality(InBin(j))
    /\ \A m \in BinNumbers : m < j => Cardinality(InBin(m)) < Cardinality(InBin(j))
WithFiniteEnd(S) == {i \in S : ~isnat(et_in[i])}

\* C4: the consensus bin is the fullest bin of the histogram of the finite naive
\* start offsets, the lowest of the fullest ones; consensus_indices is the
\* levels of that bin with both times finite, or, when there is none, the
\* levels of that bin (their start is finite).
C4_ConsensusIsFullestLowestBin ==
    TimingReturned =>
        \E j \in BinNumbers :
            /\ IsFullestBin(j)
            /\ offset_results.consensus_indices =
                 IF WithFiniteEnd(InBin(j)) # {} THEN WithFiniteEnd(InBin(j)) ELSE InBin(j)

\* two bins tie with one level each and the lower one is the consensus
C4_Witness ==
    /\ TimingReturned
    /\ \E j \in BinNumbers, m \in BinNumbers :
          /\ j < m
          /\ IsFullestBin(j)
          /\ Cardinality(InBin(m)) = Cardinality(InBin(j))
          /\ offset_results.consensus_indices = InBin(j)
          /\ \A i \in InBin(j) \cup InBin(m) : ~isnat(et_in[i])

ConsensusStarts == {st_in[i] : i \in offset_results.consensus_indices}
ConsensusEnds == {et_in[i] : i \in offset_results.consensus_indices} \ {NaT}
OffsetTo(t, ref) == IF isnat(t) \/ isnat(ref) THEN NaN ELSE R(t - ref)

\* C5: ref_start is the earliest start and ref_end the latest end of the
\* consensus members; every level gets start_offset = start - ref_start,
\* end_offset = end - ref_end, avg = (start_offset + end_offset) / 2 and
\* diff = start_offset - end_offset, NaN exactly when one of the timestamps
\* involved is NaT.
C5_OffsetsAgainstConsensusReferences ==
    TimingReturned =>
        LET r == offset_results IN
        /\ r.ref_start = MinOf(ConsensusStarts)
        /\ r.ref_end = IF ConsensusEnds = {} THEN NaT ELSE MaxOf(ConsensusEnds)
        /\ \A i \in Levels :
              /\ r.start_offsets[i] = OffsetTo(st_in[i], r.ref_start)
              /\ r.end_offsets[i] = OffsetTo(et_in[i], r.ref_end)
              /\ isnan(r.avg_offsets[i]) <=> (isnan(r.start_offsets[i]) \/ isnan(r.end_offsets[i]))
              /\ isnan(r.diff_offsets[i]) <=> (isnan(r.start_offsets[i]) \/ isnan(r.end_offsets[i]))
              /\ isfinite(r.avg_offsets[i]) =>
                    RMul(r.avg_offsets[i], R(2)) = R(r.start_offsets[i].n + r.end_offsets[i].n)
              /\ isfinite(r.diff_offsets[i]) =>
                    r.diff_offsets[i] = R(r.start_offsets[i].n - r.end_offsets[i].n)

\* the consensus references differ from the naive ones and a level outside the
\* consensus has finite offsets
C5_Witness ==
    /\ TimingReturned
    /\ offset_results.ref_start # MinOf({st_in[j] : j \in FiniteStarts})
    /\ \E i \in Levels \ offset_results.consensus_indices :
          /\ isfinite(offset_results.avg_offsets[i])
          /\ offset_results.start_offsets[i].n < 0
    /\ \E i \in Levels : isnan(offset_results.end_offsets[i])

DriftDefined(i) ==
    /\ isfinite(offset_results.start_offsets[i])
    /\ isfinite(offset_results.end_offsets[i])
    /\ ~isnat(st_in[i]) /\ ~isnat(et_in[i])
    /\ et_in[i] - st_in[i] > 0

\* C6: drift_rate_per_day[i] * duration = (end_offset[i] - start_offset[i]) * 86400
\* when both offsets and the duration are finite and the duration is positive;
\* drift_rate_per_day[i] is NaN in every other case.
C6_DriftRatePerDay ==
    TimingReturned =>
        \A i \in Levels :
            IF DriftDefined(i)
            THEN /\ isfinite(offset_results.drift_rates[i])
                 /\ RMul(offset_results.drift_rates[i], R(et_in[i] - st_in[i])) =
                      R((offset_results.end_offsets[i].n - offset_results.start_offsets[i].n) * 86400)
            ELSE isnan(offset_results.drift_rates[i])

\* one level drifts, one has a negative duration, one has a finite span but no
\* reference end to compare with
C6_Witness ==
    /\ TimingReturned
    /\ \E i \in Levels : DriftDefined(i) /\ offset_results.drift_rates[i].n # 0
    /\ \E i \in Levels :
          /\ ~isnat(st_in[i]) /\ ~isnat(et_in[i]) /\ et_in[i] < st_in[i]
          /\ isnan(offset_results.drift_rates[i])

-----------------------------------------------------------------------------
(* Properties of perform_lag_correlation_analysis *)

InLagAnalysis == call.name = "perform_lag_correlation_analysis"
LagEnded == InLagAnalysis /\ pc \in {"returned", "raised"}
AllNaN(corrs) == \A k \in 1..Len(corrs) : isnan(corrs[k].q)
n_sub == Len(Stride(passed.temperature[call.ref_index + 1], call.sub_sample))
IsOne(r) == r.s = 1 /\ r.q = R(1)

\* C9: every level gets a best_lag, a max_correlation and a
\* clock_offset_estimate; a level whose correlation is NaN at every lag gets
\* max_correlation = NaN and the analysis does not abort.
C9_EveryLevelGetsAResult ==
    LagEnded =>
        /\ exc = "none"
        /\ Len(lag_results.lags) = nlev
        /\ Len(lag_results.max_correlations) = nlev
        /\ Len(lag_results.clock_offsets) = nlev
        /\ \A i \in 1..nlev :
              AllNaN(lag_results.correlations[i]) => isnan(lag_results.max_correlations[i].q)

\* level i has its results: a lag in range, the largest non-NaN correlation at
\* that lag, and the offset estimate computed from them
BestLagOf(i) ==
    /\ i <= Len(lag_results.lags)
    /\ lag_results.lags[i] \in (-(n_sub \div 5))..(n_sub \div 5)
    /\ Len(lag_results.correlations[i]) = 2 * (n_sub \div 5) + 1
    /\ LET corrs == lag_results.correlations[i]
           best  == corrs[lag_results.lags[i] + (n_sub \div 5) + 1]
       IN  /\ ~isnan(best.q)
           /\ lag_results.max_correlations[i] = best
           /\ \A k \in 1..Len(corrs) : ~isnan(corrs[k].q) => ~CorrLt(best, corrs[k])
    /\ lag_results.clock_offsets[i] =
          RAdd(RMul(R(lag_results.lags[i] * call.sub_sample), nanmedian(diff_seconds(passed.time))),
               R(passed.clock_offset[i]))

IsExample == Len(passed.time) = ExampleLen /\ call.sub_sample = 1

\* C10: every level gets the lag in -(n_sub // 5)..(n_sub // 5) of its largest
\* non-NaN correlation and clock_offset_estimate = best_lag * sub_sample *
\* median(diff(time)) + clock_offset; of the two 500-sample series, one the
\* other shifted by three samples, the one that is not the reference gets
\* best_lag = 3 and max_correlation = 1.
C10_BestLagAndEstimate ==
    LagEnded =>
        /\ \A i \in 1..nlev : BestLagOf(i)
        /\ IsExample =>
              \A i \in 1..nlev : i # call.ref_index + 1 =>
                  lag_results.lags[i] = 3 /\ IsOne(lag_results.max_correlations[i])

\* what the analysis does record, whenever it records a level
LagRecordedLevels ==
    InLagAnalysis => \A i \in 1..Len(lag_results.lags) : BestLagOf(i)

\* the sign of the example: +3 for the early series against the other, -3 for
\* the late one
LagExampleSign ==
    (LagEnded /\ IsExample) =>
        /\ pc = "returned"
        /\ \A i \in 1..nlev : IsOne(lag_results.max_correlations[i])
        /\ lag_results.lags = IF call.ref_index = 0 THEN <<0, 3>> ELSE <<-3, 0>>
        /\ lag_results.clock_offsets =
              IF call.ref_index = 0 THEN <<R(0), R(180)>> ELSE <<R(-180), R(0)>>

-----------------------------------------------------------------------------
(* Properties of lag_correlation *)

InLagCorrelation == call.name = "lag_correlation"

\* indices i of the pairs of a lag: (x[i], y[i - lag]) over x[:lag], y[-lag:]
\* for lag < 0; (x[i + lag], y[i]) over x[lag:], y[:-lag] for lag > 0; (x[i], y[i])
\* for lag 0; only those with both values present
XOf(x, lag, i) == IF lag > 0 THEN x[i + lag].n ELSE x[i].n
YOf(y, lag, i) == IF lag < 0 THEN y[i - lag].n ELSE y[i].n
PairsOf(x, y, lag) ==
    {i \in 1..(Len(x) - Abs(lag)) :
        IF lag > 0 THEN ~isnan(x[i + lag]) /\ ~isnan(y[i])
        ELSE IF lag < 0 THEN ~isnan(x[i]) /\ ~isnan(y[i - lag])
        ELSE ~isnan(x[i]) /\ ~isnan(y[i])}

\* sum of f over the finite set J
RECURSIVE SumOver(_, _)
SumOver(J, f) ==
    IF J = {} THEN 0 ELSE LET i == CHOOSE i \in J : TRUE IN f[i] + SumOver(J \ {i}, f)

\* r is the Pearson correlation of the integer pairs (a[i], b[i]), i in J, and
\* NaN when a or b has no spread there
IsPearson(r, a, b, J) ==
    LET k   == Cardinality(J)
        cov == k * SumOver(J, [i \in J |-> a[i] * b[i]]) - SumOver(J, a) * SumOver(J, b)
        va  == k * SumOver(J, [i \in J |-> a[i] * a[i]]) - SumOver(J, a) * SumOver(J, a)
        vb  == k * SumOver(J, [i \in J |-> b[i] * b[i]]) - SumOver(J, b) * SumOver(J, b)
    IN  IF va = 0 \/ vb = 0 THEN isnan(r.q)
        ELSE /\ ~isnan(r.q)
             /\ r.s = Sign(cov)
             /\ r.q.n * va * vb = r.q.d * cov * cov

\* C11: lag_correlation gives 2*max_lag+1 entries, entry k for the lag
\* k - max_lag, pairing x[:lag] with y[-lag:] (lag < 0), x[lag:] with y[:-lag]
\* (lag > 0) or the full arrays; an entry is NaN with fewer than min_overlap
\* jointly present pairs or a series without spread, the Pearson correlation of
\* the jointly present pairs otherwise; arrays of different length raise
\* ValueError.
C11_LagCorrelationEntries ==
    (InLagCorrelation /\ pc # "idle") =>
        IF Len(call.x) # Len(call.y)
        THEN pc = "raised" /\ exc = "ValueError"
        ELSE /\ pc = "returned"
             /\ Len(locals.corrs_sub) = 2 * call.max_lag + 1
             /\ \A lag \in (-call.max_lag)..call.max_lag :
                   LET r == locals.corrs_sub[lag + call.max_lag + 1]
                       J == PairsOf(call.x, call.y, lag)
                   IN  IF Cardinality(J) < call.min_overlap THEN isnan(r.q)
                       ELSE IsPearson(r, [i \in J |-> XOf(call.x, lag, i)],
                                         [i \in J |-> YOf(call.y, lag, i)], J)

\* a negative correlation at lag +1 next to a NaN entry at lag -1, with a
\* missing value in x
C11_Witness ==
    /\ InLagCorrelation /\ pc = "returned"
    /\ call.max_lag = 1
    /\ \E j \in 1..Len(call.x) : isnan(call.x[j])
    /\ locals.corrs_sub[3].s = -1
    /\ isnan(locals.corrs_sub[1].q)
    /\ ~isnan(locals.corrs_sub[2].q)

-----------------------------------------------------------------------------
(* Properties of suggest_reference_instrument *)

Suggested == call.name = "suggest_reference_instrument" /\ pc = "returned"
avg_in == offset_results.avg_offsets
FiniteAvg == {i \in 1..Len(avg_in) : isfinite(avg_in[i])}

-----------------------------------------------------------------------------
(* Properties of the detection followed by the consensus *)

\* the shift of the transitions of level k in the dataset passed in
ShiftOf(k) == CHOOSE d \in ScenarioShifts : passed.temperature[k] = ScenarioSeries(d)
\* times of the first and of the last cold sample of level k
TrueStart(k) == (ScenarioDeck + ShiftOf(k)) * 60
TrueEnd(k) == (ScenarioLen - ScenarioDeck + ShiftOf(k) - 1) * 60
DeploymentDone ==
    \/ call.name = "find_deployment" /\ pc = "returned"
    \/ call.name = "calculate_timing_offsets"

\* C13: on the 1000-sample one-minute grid, 20.0 on deck for the first and last
\* 50 samples and 5.0 in between, find_deployment puts start_time and end_time
\* of every level within one sample of its transitions; when the transitions of
\* instrument 2 come 2 samples later, instruments 0 and 1 form the consensus
\* and instrument 2 gets start_offset = 120 s.
C13_ScenarioBoundariesAndOffset ==
    /\ DeploymentDone =>
          \A k \in 1..3 :
              /\ ~isnat(start_time.values[k]) /\ ~isnat(end_time.values[k])
              /\ Abs(start_time.values[k] - TrueStart(k)) <= 60
              /\ Abs(end_time.values[k] - TrueEnd(k)) <= 60
    /\ (TimingReturned /\ ShiftOf(3) = 2) =>
          /\ offset_results.consensus_indices = {1, 2}
          /\ offset_results.start_offsets[3] = R(120)

\* the consensus computed for the scenario with instrument 2 two samples late
C13_Witness ==
    /\ TimingReturned
    /\ Len(time) = ScenarioLen
    /\ ShiftOf(3) = 2
    /\ start_time.values = <<TrueStart(1), TrueStart(2), TrueStart(3)>>
    /\ offset_results.start_offsets[3] = R(120)

-----------------------------------------------------------------------------
(* Frame of the four operations *)

RawData == <<shape, time, temperature, clock_offset>>
Annotations == <<start_time, end_time, split_value>>
Estimated(r) == \E i \in 1..Len(r.lags) : r.lags[i] # 0

\* C15: no step of any of the four operations changes the time axis, the
\* measurement array or clock_offset; a step of find_deployment changes at
\* most start_time, end_time and split_value; a step of calculate_timing_offsets,
\* suggest_reference_instrument or perform_lag_correlation_analysis leaves
\* the whole dataset as it was, whatever estimate it returns.
C15_RawDataUnchanged ==
    [][/\ RawData' = RawData
       /\ ~InFindDeployment' => Annotations' = Annotations]_vars

\* find_deployment annotated the dataset, then perform_lag_correlation_analysis
\* returned a non-zero lag for a level, and the time axis is still the one
\* passed in
C15_Witness ==
    /\ LagEnded /\ pc = "returned"
    /\ start_time # Absent
    /\ Estimated(lag_results)
    /\ time = TimeGrid(CoreLen, 60)
    /\ Len(time) = CoreLen

-----------------------------------------------------------------------------
(* likely_at_bottom_window called on its own *)

\* timestamps count the resolution unit of the axis; the axes are strictly
\* increasing, from two samples one unit apart to several days
WindowSteps == {1, 2, 3, Hour, 48 * Hour, 100 * Hour}
WindowOrigin == 10 * Hour
WindowAxes ==
    {Cumulate(d, 1, WindowOrigin) : d \in UNION {[1..(n - 1) -> WindowSteps] : n \in 2..MaxLen}}
WindowStrategies == {"fixed_hours", "percent_span", "deployment_bounds"}
WindowMargins == {0, 1, 24, 200}
WindowFractions == {Rat(0, 1), Rat(1, 4), Rat(1, 2), Rat(3, 5)}
WindowBounds(t) == {None, Some(t[1] - Hour), Some(t[1]), Some(t[Len(t)]), Some(t[Len(t)] + Hour)}
WindowDeploymentMargins == {0, 2}

LikelyAtBottomWindow ==
    /\ pc = "idle"
    /\ \E strategy \in WindowStrategies, margin \in WindowMargins, f \in WindowFractions, dt \in WindowBounds(time), rt \in WindowBounds(time), dm \in WindowDeploymentMargins :
          /\ call' = [NoCall EXCEPT !.name = "likely_at_bottom_window",
                                    !.bottom_strategy = strategy,
                                    !.bottom_margin_hours = margin,
                                    !.bottom_inner_fraction = f,
                                    !.deployment_time = dt,
                                    !.recovery_time = rt,
                                    !.deployment_margin_hours = dm]
          /\ LET w == likely_at_bottom_window(time, strategy, margin, f, dt, rt, dm)
             IN  /\ locals' = [NoLocals EXCEPT !.bot_start = w.start, !.bot_end = w.end]
                 /\ exc' = w.exc
                 /\ pc' = IF w.exc = "none" THEN "returned" ELSE "raised"
    /\ UNCHANGED <<result, suggestion, shape, time, temperature, clock_offset, start_time, end_time,
                   split_value, passed, lvl, deep_is_below, offset_results, lag_results>>

InitWindow ==
    /\ shape = GoodShape
    /\ time \in WindowAxes
    /\ temperature = <<>>
    /\ clock_offset = <<>>
    /\ start_time = Absent /\ end_time = Absent /\ split_value = Absent
    /\ AtRest

NextWindow == LikelyAtBottomWindow

SpecWindow == InitWindow /\ [][NextWindow]_vars

-----------------------------------------------------------------------------
(* Properties of likely_at_bottom_window *)

WindowReturned == call.name = "likely_at_bottom_window" /\ pc = "returned"
t_min == time[1]
t_max == time[Len(time)]
WindowSpan == t_max - t_min

\* C16: on a strictly increasing axis of at least two samples the window
\* returned has start < end and lies inside [time[0], time[-1]], whatever the
\* strategy and the parameters.
C16_WindowIsProperAndInside ==
    WindowReturned =>
        /\ locals.bot_start < locals.bot_end
        /\ t_min <= locals.bot_start /\ locals.bot_start <= t_max
        /\ t_min <= locals.bot_end /\ locals.bot_end <= t_max

\* what holds instead: the window is inside the axis and never inverted, and it
\* is empty (start = end) only for an axis spanning one resolution unit
C16_WindowInsideAndNotInverted ==
    WindowReturned =>
        /\ locals.bot_start <= locals.bot_end
        /\ t_min <= locals.bot_start /\ locals.bot_end <= t_max
        /\ locals.bot_start = locals.bot_end => WindowSpan = 1


\* the window the strategy asks for, before clipping
PlannedWindow ==
    IF call.bottom_strategy = "fixed_hours"
    THEN <<t_min + call.bottom_margin_hours * Hour, t_max - call.bottom_margin_hours * Hour>>
    ELSE IF call.bottom_strategy = "percent_span"
    THEN <<t_min + (call.bottom_inner_fraction.n * WindowSpan) \div call.bottom_inner_fraction.d,
           t_max - (call.bottom_inner_fraction.n * WindowSpan) \div call.bottom_inner_fraction.d>>
    ELSE <<call.deployment_time.t + call.deployment_margin_hours * Hour,
           call.recovery_time.t - call.deployment_margin_hours * Hour>>
ClippedWindow ==
    <<IF PlannedWindow[1] < t_min THEN t_min ELSE PlannedWindow[1],
      IF PlannedWindow[2] > t_max THEN t_max ELSE PlannedWindow[2]>>
MiddleThird == <<t_min + (33 * WindowSpan) \div 100, t_min + (66 * WindowSpan) \div 100>>
BoundsGiven == call.deployment_time.given /\ call.recovery_time.given

\* C17: the window is the strategy's window ([t_min + margin, t_max - margin],
\* [t_min + f*span, t_max - f*span] or [deployment_time + margin,
\* recovery_time - margin]) with start raised to t_min and end lowered to
\* t_max when that has start < end, and the middle third
\* [t_min + 0.33*span, t_min + 0.66*span] when it has end <= start (products
\* with a fraction are cut to the resolution of the timestamps).
C17_WindowOfStrategyOrMiddleThird ==
    (WindowReturned /\ (call.bottom_strategy = "deployment_bounds" => BoundsGiven)) =>
        <<locals.bot_start, locals.bot_end>> =
            IF ClippedWindow[1] < ClippedWindow[2] THEN ClippedWindow ELSE MiddleThird

\* fixed_hours with a margin of 24 h on an axis spanning 48 h: the clipped
\* window is empty (start = end) and the middle third is returned
C17_Witness ==
    /\ WindowReturned
    /\ call.bottom_strategy = "fixed_hours"
    /\ call.bottom_margin_hours = 24
    /\ WindowSpan = 48 * Hour
    /\ ClippedWindow[1] = ClippedWindow[2]
    /\ locals.bot_start = t_min + 57024
    /\ locals.bot_end = t_min + 114048

-----------------------------------------------------------------------------
(* Tuning arguments of find_deployment *)

\* the bottom window and the threshold of a level computed with the arguments
\* of the call c
TunedWindow(t, c) ==
    likely_at_bottom_window(t, c.bottom_strategy, c.bottom_margin_hours, c.bottom_inner_fraction, c.deployment_time, c.recovery_time, c.deployment_margin_hours)
TunedSplitValue(t, y, c) ==
    LET bot == TunedWindow(t, c)
        sea == determine_sea_values(t, y, bot.start, bot.end)
        r   == compute_threshold_sigma_band(t, y, sea.mean, sea.std_sq, c.band_sigma, Rat(1, 10), "auto", 24, 9, 90)
    IN  IF ThresholdIsFinite(r.threshold) THEN r.threshold ELSE NaNThreshold
CallerGaveBounds == call.deployment_time.given /\ call.recovery_time.given

\* C18: the bottom window of a call with bottom_strategy = 'deployment_bounds'
\* is the one of the deployment_time and recovery_time the caller supplied, and
\* the split_value written for every level is the threshold computed with the
\* caller's band_sigma over that window.
C18_CallerTuningIsUsed ==
    /\ (InFindDeployment /\ pc = "sea" /\ call.bottom_strategy = "deployment_bounds" /\ CallerGaveBounds) =>
          /\ locals.bot_start = TunedWindow(time, call).start
          /\ locals.bot_end = TunedWindow(time, call).end
    /\ (InFindDeployment /\ pc = "returned") =>
          \A k \in 1..nlev :
              split_value.values[k] = TunedSplitValue(time, temperature[k], call)

\* what the code does: every level is annotated with band_sigma = 1.5 and the
\* ends of the time axis as deployment and recovery time, whatever was passed
C18_TuningIsHardCoded ==
    (InFindDeployment /\ pc = "returned") =>
        \A k \in 1..nlev :
            Annotation(start_time, end_time, split_value, k)
              = LevelAnnotation(time, temperature[k], call)

-----------------------------------------------------------------------------
(* compute_threshold_sigma_band called on its own *)

ThresholdLen == 3
SeaMeans == {NaN, R(5), Rat(25, 2), R(20)}
SeaStdSquares == {NaN, R(0), R(4)}
ThresholdBandSigmas == {R(0), Rat(3, 2), R(3)}
MinBandHalfwidths == {Rat(1, 10), R(10)}
WarmSides == {"high", "low", "auto"}
WarmHours == {-1, 0, 24}
SmoothWindows == {1, 9}

ComputeThresholdSigmaBand ==
    /\ pc = "idle"
    /\ \E sea_mean \in SeaMeans, sea_std_sq \in SeaStdSquares, band_sigma \in ThresholdBandSigmas, min_band_halfwidth \in MinBandHalfwidths, warm_side \in WarmSides, hours \in WarmHours, smooth_window \in SmoothWindows :
          /\ call' = [NoCall EXCEPT !.name = "compute_threshold_sigma_band",
                                    !.sea_mean = sea_mean,
                                    !.sea_std_sq = sea_std_sq,
                                    !.band_sigma = band_sigma,
                                    !.min_band_halfwidth = min_band_halfwidth,
                                    !.warm_side = warm_side,
                                    !.hours = hours,
                                    !.smooth_window = smooth_window]
          /\ LET r == compute_threshold_sigma_band(time, temperature[1], sea_mean, sea_std_sq, band_sigma, min_band_halfwidth, warm_side, hours, smooth_window, 90)
             IN  locals' = [NoLocals EXCEPT !.thr = r.threshold, !.deep_is_below = r.deep_is_below]
    /\ pc' = "returned"
    /\ UNCHANGED <<result, suggestion, shape, time, temperature, clock_offset, start_time, end_time,
                   split_value, passed, lvl, exc, deep_is_below, offset_results, lag_results>>

InitThreshold ==
    /\ shape = GoodShape
    /\ \E n \in 1..ThresholdLen :
          /\ time \in TimeAxes(n)
          /\ temperature \in [1..1 -> [1..n -> TempValues]]
    /\ clock_offset = <<0>>
    /\ start_time = Absent /\ end_time = Absent /\ split_value = Absent
    /\ AtRest

NextThreshold == ComputeThresholdSigmaBand

SpecThreshold == InitThreshold /\ [][NextThreshold]_vars

-----------------------------------------------------------------------------
(* Properties of compute_threshold_sigma_band *)

ThresholdReturned == call.name = "compute_threshold_sigma_band" /\ pc = "returned"

\* the square of max(band_sigma * sea_std, min_band_halfwidth)
HalfwidthSquared ==
    LET a == RMul(RMul(call.band_sigma, call.band_sigma), call.sea_std_sq)
        b == RMul(call.min_band_halfwidth, call.min_band_halfwidth)
    IN  IF RGe(a, b) THEN a ELSE b

\* the early and late samples of the smoothed series, and the warm estimate
Smoothed == rolling_median(temperature[1], call.smooth_window)
EarlySamples == {j \in 1..Len(time) : time[j] <= time[1] + call.hours * Hour}
LateSamples == {j \in 1..Len(time) : time[j] >= time[Len(time)] - call.hours * Hour}
PercentileOver(S) == nanpercentile(Masked(Smoothed, [j \in 1..Len(time) |-> j \in S], 1), call.warm_percentile)
WarmEstimate ==
    IF EarlySamples # {} /\ LateSamples # {}
    THEN nanmedian(<<PercentileOver(EarlySamples), PercentileOver(LateSamples)>>)
    ELSE IF EarlySamples # {} THEN PercentileOver(EarlySamples)
    ELSE PercentileOver(LateSamples)
ResolvedSide ==
    IF call.warm_side # "auto" THEN call.warm_side
    ELSE IF EarlySamples = {} /\ LateSamples = {} THEN "high"
    ELSE IF RGe(WarmEstimate, call.sea_mean) THEN "high" ELSE "low"

\* C19: the threshold is sea_mean + halfwidth with deep_is_below = True when
\* the resolved warm side is 'high' and sea_mean - halfwidth with
\* deep_is_below = False when it is 'low', halfwidth being
\* max(band_sigma*sea_std, min_band_halfwidth); with warm_side = 'auto' the
\* side is 'high' iff the warm estimate is >= sea_mean, and 'high' when
\* neither the early nor the late window has a sample. (A NaN sea_mean or
\* sea_std gives a NaN threshold.)
C19_ThresholdIsMeanPlusOrMinusHalfwidth ==
    ThresholdReturned =>
        /\ locals.deep_is_below = (ResolvedSide = "high")
        /\ IF isnan(call.sea_mean) \/ isnan(call.sea_std_sq)
           THEN ~ThresholdIsFinite(locals.thr)
           ELSE locals.thr = [mean |-> call.sea_mean,
                              sign |-> IF ResolvedSide = "high" THEN 1 ELSE -1,
                              halfw_sq |-> HalfwidthSquared]

\* warm_side = 'auto' on a series whose warm estimate equals sea_mean: the side
\* is 'high' and the threshold is 5 + 1.5 * 2
C19_Witness ==
    /\ ThresholdReturned
    /\ call.warm_side = "auto" /\ call.hours = 24
    /\ temperature[1] = <<R(5), R(5), R(5)>>
    /\ WarmEstimate = R(5)
    /\ call.sea_mean = R(5) /\ call.sea_std_sq = R(4)
    /\ call.band_sigma = Rat(3, 2) /\ call.min_band_halfwidth = Rat(1, 10)
    /\ locals.thr = [mean |-> R(5), sign |-> 1, halfw_sq |-> R(9)]
    /\ locals.deep_is_below

-----------------------------------------------------------------------------
(* determine_sea_values called on its own *)

SeaLen == 4
WindowStarts == {0, 24 * Hour, 48 * Hour, 60 * Hour}
WindowEnds == {0, 24 * Hour, 48 * Hour, 96 * Hour}

DetermineSeaValues ==
    /\ pc = "idle"
    /\ \E bot_start \in WindowStarts, bot_end \in WindowEnds :
          /\ call' = [NoCall EXCEPT !.name = "determine_sea_values",
                                    !.bot_start = bot_start,
                                    !.bot_end = bot_end]
          /\ LET sea == determine_sea_values(time, temperature[1], bot_start, bot_end)
             IN  locals' = [NoLocals EXCEPT !.sea_mean = sea.mean, !.sea_std_sq = sea.std_sq]
    /\ pc' = "returned"
    /\ UNCHANGED <<result, suggestion, shape, time, temperature, clock_offset, start_time, end_time,
                   split_value, passed, lvl, exc, deep_is_below, offset_results, lag_results>>

InitSea ==
    /\ shape = GoodShape
    /\ \E n \in 1..SeaLen :
          /\ time \in TimeAxes(n)
          /\ temperature \in [1..1 -> [1..n -> TempValues]]
    /\ clock_offset = <<0>>
    /\ start_time = Absent /\ end_time = Absent /\ split_value = Absent
    /\ AtRest

NextSea == DetermineSeaValues

SpecSea == InitSea /\ [][NextSea]_vars

-----------------------------------------------------------------------------
(* Properties of determine_sea_values *)

SeaReturned == call.name = "determine_sea_values" /\ pc = "returned"
InWindow == {j \in 1..Len(time) : call.bot_start <= time[j] /\ time[j] <= call.bot_end}
FiniteIn(J) == {j \in J : isfinite(temperature[1][j])}
ValueOf == [j \in 1..Len(time) |-> temperature[1][j].n]
SquareOf == [j \in 1..Len(time) |-> temperature[1][j].n * temperature[1][j].n]

\* m is the mean of the finite samples of J (NaN when there is none)
IsMeanOf(m, J) ==
    LET F == FiniteIn(J)
    IN  IF F = {} THEN isnan(m)
        ELSE isfinite(m) /\ m.n * Cardinality(F) = m.d * SumOver(F, ValueOf)

\* v is the square of the ddof = 1 standard deviation of the finite samples of
\* J, and 0.0 with fewer than two of them
IsSampleVarianceOf(v, J) ==
    LET F == FiniteIn(J)
        k == Cardinality(F)
    IN  IF k < 2 THEN v = R(0)
        ELSE /\ isfinite(v)
             /\ v.n * k * (k - 1) = v.d * (k * SumOver(F, SquareOf) - SumOver(F, ValueOf) * SumOver(F, ValueOf))

\* the samples between the 25th and the 75th percentile of the whole series
MiddleHalf ==
    {j \in 1..Len(time) :
        /\ RGe(temperature[1][j], nanpercentile(temperature[1], 25))
        /\ RLe(temperature[1][j], nanpercentile(temperature[1], 75))}

WindowStatistics ==
    IF InWindow # {}
    THEN IsMeanOf(locals.sea_mean, InWindow) /\ IsSampleVarianceOf(locals.sea_std_sq, InWindow)
    ELSE MiddleHalf # {} => IsMeanOf(locals.sea_mean, MiddleHalf)

MeanWithinWindowValues ==
    \E lo, hi \in FiniteIn(InWindow) :
        /\ RLe(temperature[1][lo], locals.sea_mean)
        /\ RLe(locals.sea_mean, temperature[1][hi])

\* C20: with a sample in [bot_start, bot_end] the mean and the ddof = 1
\* standard deviation (0.0 for a single sample) are those of the in-window
\* samples, and the middle-half fallback is used only when no sample is in the
\* window; for a window with two or more samples std >= 0 and the mean lies
\* between the minimum and the maximum of the in-window values.
C20_SeaValuesOfWindow ==
    SeaReturned =>
        /\ WindowStatistics
        /\ Cardinality(InWindow) >= 2 =>
              /\ RGe(locals.sea_std_sq, R(0))
              /\ MeanWithinWindowValues

\* C20 as amended: the bound on the mean is for windows with a finite sample;
\* a window whose samples are all NaN gives a NaN mean and std = 0.0.
C20_SeaValuesOfFiniteWindow ==
    SeaReturned =>
        /\ WindowStatistics
        /\ Cardinality(InWindow) >= 2 =>
              /\ RGe(locals.sea_std_sq, R(0))
              /\ IF FiniteIn(InWindow) # {}
                 THEN MeanWithinWindowValues
                 ELSE isnan(locals.sea_mean) /\ locals.sea_std_sq = R(0)

\* a window [0 h, 48 h] holding the samples 5, NaN and 20: mean 12.5 and
\* std^2 = 112.5 over the two finite samples
C20_Witness ==
    /\ SeaReturned
    /\ time = <<0, 0, 48 * Hour, 96 * Hour>>
    /\ temperature[1] = <<R(5), NaN, R(20), R(20)>>
    /\ call.bot_start = 0 /\ call.bot_end = 48 * Hour
    /\ InWindow = {1, 2, 3}
    /\ locals.sea_mean = Rat(25, 2)
    /\ locals.sea_std_sq = Rat(225, 2)

-----------------------------------------------------------------------------
(* Stage2Processor._apply_clock_offset *)

\* Python's int() of a finite float: the fraction is dropped, towards zero
PyInt(r) == IF r.n >= 0 THEN r.n \div r.d ELSE -((-r.n) \div r.d)

\* lines 61-76: the dataset itself for clock_offset == 0, else a copy with the
\* clock_offset variable set and the time coordinate shifted by int(clock_offset) s
YamlClockOffsets == {R(0), R(300), R(-600), R(1), R(-1), Rat(1, 2), Rat(-1, 2), Rat(241, 2), Rat(-5, 2)}
ApplyClockOffset ==
    /\ pc = "idle"
    /\ \E c \in YamlClockOffsets :
          /\ call' = [NoCall EXCEPT !.name = "_apply_clock_offset", !.clock_offset = c]
          /\ result' = IF c = R(0)
                       THEN [time |-> time, clock_offset |-> R(clock_offset[1]), units |-> "s"]
                       ELSE [time |-> [j \in DOMAIN time |-> time[j] + PyInt(c)],
                             clock_offset |-> c, units |-> "s"]
    /\ passed' = Dataset
    /\ pc' = "returned"
    /\ UNCHANGED <<suggestion, shape, time, temperature, clock_offset, start_time, end_time,
                   split_value, lvl, exc, locals, deep_is_below, offset_results, lag_results>>

\* the raw dataset of one instrument, clock_offset as Stage 1 wrote it
Stage2Len == 3
InitStage2 ==
    /\ shape = GoodShape
    /\ \E n \in 1..Stage2Len :
          /\ time \in TimeAxes(n)
          /\ temperature \in [1..1 -> [1..n -> TempValues]]
    /\ clock_offset \in {<<0>>, <<300>>}
    /\ start_time = Absent /\ end_time = Absent /\ split_value = Absent
    /\ AtRest

NextStage2 == ApplyClockOffset

SpecStage2 == InitStage2 /\ [][NextStage2]_vars

-----------------------------------------------------------------------------
(* Properties of _apply_clock_offset *)

OffsetApplied == call.name = "_apply_clock_offset" /\ pc = "returned"

\* C21: for c # 0 the returned time is the input time plus c seconds and the
\* returned dataset records clock_offset = c with units 's'; the time
\* coordinate of the dataset passed in is not modified; for c = 0 the returned
\* time equals the input time.
C21_TimePlusClockOffset ==
    OffsetApplied =>
        /\ time = passed.time
        /\ Len(result.time) = Len(passed.time)
        /\ call.clock_offset # R(0) =>
              /\ \A j \in 1..Len(passed.time) :
                    R(result.time[j]) = RAdd(R(passed.time[j]), call.clock_offset)
              /\ result.clock_offset = call.clock_offset
              /\ result.units = "s"
        /\ call.clock_offset = R(0) => result.time = passed.time

\* what the code does: the shift is int(c) seconds, c without its fraction
C21_TimePlusWholeSeconds ==
    OffsetApplied =>
        /\ time = passed.time
        /\ \A j \in 1..Len(passed.time) :
              result.time[j] = passed.time[j] + PyInt(call.clock_offset)
        /\ call.clock_offset # R(0) =>
              result.clock_offset = call.clock_offset /\ result.units = "s"

-----------------------------------------------------------------------------
(* _best_step_change *)

\* np.where(np.isfinite(y), y, 0.0), its squares, and the finite flags
ZeroFilled(y) == [j \in Indices(y) |-> IF isfinite(y[j]) THEN y[j] ELSE R(0)]
ZeroFilledSquares(y) == [j \in Indices(y) |-> IF isfinite(y[j]) THEN RMul(y[j], y[j]) ELSE R(0)]
FiniteFlags(y) == [j \in Indices(y) |-> IF isfinite(y[j]) THEN R(1) ELSE R(0)]

\* np.nancumsum(s)[k - 1]
nancumsum(s, k) == RSumRange(s, 1, k)

\* lines 60-61: no split found yet
NoSplit == [k |-> -1, sse |-> NaN, mu1 |-> NaN, mu2 |-> NaN]

\* lines 47-89 with  sse <= best_sse : the last of the best splits
RECURSIVE step_loop_last(_, _, _, _)
step_loop_last(y, min_seg, k, best) ==
    IF k > Len(y) - min_seg THEN best
    ELSE
    LET n   == Len(y)
        n1  == nancumsum(FiniteFlags(y), k)
        n2  == RSub(nancumsum(FiniteFlags(y), n), n1)
        s1  == nancumsum(ZeroFilled(y), k)
        s2  == RSub(nancumsum(ZeroFilled(y), n), s1)
        q1  == nancumsum(ZeroFilledSquares(y), k)
        q2  == RSub(nancumsum(ZeroFilledSquares(y), n), q1)
        mu1 == RDiv(s1, n1)
        mu2 == RDiv(s2, n2)
        sse == RAdd(RSub(q1, RMul(n1, RMul(mu1, mu1))), RSub(q2, RMul(n2, RMul(mu2, mu2))))
    IN  IF RLt(n1, R(min_seg)) \/ RLt(n2, R(min_seg))
        THEN step_loop_last(y, min_seg, k + 1, best)
        ELSE IF best.k = -1 \/ RLe(sse, best.sse)
        THEN step_loop_last(y, min_seg, k + 1, [k |-> k, sse |-> sse, mu1 |-> mu1, mu2 |-> mu2])
        ELSE step_loop_last(y, min_seg, k + 1, best)

\* lines 63-83: the loop over k, keeping the first split of least sse
RECURSIVE step_loop(_, _, _, _)
step_loop(y, min_seg, k, best) ==
    IF k > Len(y) - min_seg THEN best
    ELSE
    LET n   == Len(y)
        n1  == nancumsum(FiniteFlags(y), k)
        n2  == RSub(nancumsum(FiniteFlags(y), n), n1)
        s1  == nancumsum(ZeroFilled(y), k)
        s2  == RSub(nancumsum(ZeroFilled(y), n), s1)
        q1  == nancumsum(ZeroFilledSquares(y), k)
        q2  == RSub(nancumsum(ZeroFilledSquares(y), n), q1)
        mu1 == RDiv(s1, n1)
        mu2 == RDiv(s2, n2)
        sse == RAdd(RSub(q1, RMul(n1, RMul(mu1, mu1))), RSub(q2, RMul(n2, RMul(mu2, mu2))))
    IN  IF RLt(n1, R(min_seg)) \/ RLt(n2, R(min_seg))
        THEN step_loop(y, min_seg, k + 1, best)
        ELSE IF best.k = -1 \/ RLt(sse, best.sse)
        THEN step_loop(y, min_seg, k + 1, [k |-> k, sse |-> sse, mu1 |-> mu1, mu2 |-> mu2])
        ELSE step_loop(y, min_seg, k + 1, best)

\* _best_step_change: [k, mu_left, mu_right]
best_step_change(y, min_seg) ==
    LET n    == Len(y)
        mu   == nanmean(y)
        none == [k |-> Max(min_seg, n \div 2), mu_left |-> mu, mu_right |-> mu]
        best == step_loop(y, min_seg, min_seg, NoSplit)
    IN  IF n < 2 * min_seg + 1 THEN none
        ELSE IF best.k = -1 THEN none
        ELSE [k |-> best.k, mu_left |-> best.mu1, mu_right |-> best.mu2]

\* the series _best_step_change is called on: short series, and 20 samples
\* of 0 followed by 20 samples of 10
MaxStepLen == 5
StepHalf == 20
StepValues == {NaN, R(0), R(4), R(10)}
StepExample == [j \in 1..(2 * StepHalf) |-> IF j <= StepHalf THEN R(0) ELSE R(10)]
StepSeries == UNION {[1..n -> StepValues] : n \in 0..MaxStepLen} \cup {StepExample}
MinSegs(y) == IF Len(y) > MaxStepLen THEN 1..(Len(y) \div 2) ELSE 1..3

BestStepChange ==
    /\ pc = "idle"
    /\ \E min_seg \in MinSegs(temperature[1]) :
          /\ call' = [NoCall EXCEPT !.name = "_best_step_change",
                                    !.y = temperature[1],
                                    !.min_seg = min_seg]
          /\ LET r == best_step_change(temperature[1], min_seg)
             IN  locals' = [NoLocals EXCEPT !.best_k = r.k, !.best_mu1 = r.mu_left, !.best_mu2 = r.mu_right]
    /\ pc' = "returned"
    /\ UNCHANGED <<result, suggestion, shape, time, temperature, clock_offset, start_time, end_time,
                   split_value, passed, lvl, exc, deep_is_below, offset_results, lag_results>>

InitStep ==
    /\ shape = GoodShape
    /\ temperature \in {<<y>> : y \in StepSeries}
    /\ time = [j \in 1..Len(temperature[1]) |-> j * Hour]
    /\ clock_offset = <<0>>
    /\ start_time = Absent /\ end_time = Absent /\ split_value = Absent
    /\ AtRest

NextStep == BestStepChange

SpecStep == InitStep /\ [][NextStep]_vars


-----------------------------------------------------------------------------
(* Properties of _best_step_change *)

StepReturned == call.name = "_best_step_change" /\ pc = "returned"
StepLen == Len(call.y)
FiniteOf(J) == {j \in J : isfinite(call.y[j])}

\* the samples are whole numbers: their values and squares as integers
StepValue == [j \in 1..StepLen |-> call.y[j].n]
StepSquare == [j \in 1..StepLen |-> call.y[j].n * call.y[j].n]

\* mean of the finite samples with index in J, and their squared error about
\* it: sum(y^2) - sum(y)^2 / count
MeanOf(J) == Rat(SumOver(FiniteOf(J), StepValue), Cardinality(FiniteOf(J)))
SquaredError(J) ==
    LET F == FiniteOf(J)
    IN  Rat(Cardinality(F) * SumOver(F, StepSquare) - SumOver(F, StepValue) * SumOver(F, StepValue), Cardinality(F))

\* the sides of the split k: indices [0, k) and [k, n) of the code, 1-based here
LeftOf(k) == 1..k
RightOf(k) == (k + 1)..StepLen
SplitSSE(k) == RAdd(SquaredError(LeftOf(k)), SquaredError(RightOf(k)))
ValidSplits ==
    {k \in call.min_seg..(StepLen - call.min_seg) :
        /\ Cardinality(FiniteOf(LeftOf(k))) >= call.min_seg
        /\ Cardinality(FiniteOf(RightOf(k))) >= call.min_seg}

\* C22: for n >= 2*min_seg+1 (and some split with min_seg finite samples on
\* both sides) the split returned is the smallest k among the valid splits of
\* least summed squared error of the two-mean model, and left_mean, right_mean
\* are the means of the finite samples of [0,k) and [k,n).
C22_BestSplitMinimisesSSE ==
    (StepReturned /\ StepLen >= 2 * call.min_seg + 1 /\ ValidSplits # {}) =>
        /\ locals.best_k \in ValidSplits
        /\ \A k \in ValidSplits :
              /\ RLe(SplitSSE(locals.best_k), SplitSSE(k))
              /\ SplitSSE(k) = SplitSSE(locals.best_k) => locals.best_k <= k
        /\ locals.best_mu1 = MeanOf(LeftOf(locals.best_k))
        /\ locals.best_mu2 = MeanOf(RightOf(locals.best_k))

\* [0, 0, NaN, 10, 10] with min_seg = 1: the splits 2 and 3 tie at squared error
\* 0 (the NaN keeps its position), and 2 is returned with means 0 and 10
C22_Witness ==
    /\ StepReturned
    /\ call.y = <<R(0), R(0), NaN, R(10), R(10)>>
    /\ call.min_seg = 1
    /\ SplitSSE(2) = R(0) /\ SplitSSE(3) = R(0)
    /\ locals.best_k = 2
    /\ locals.best_mu1 = R(0) /\ locals.best_mu2 = R(10)

\* C23: on [0]*20 + [10]*20 every min_seg from 1 to 20 gives a split within
\* 20 +/- 1 with left_mean 0 and right_mean 10.
C23_StepExampleForEveryMinSeg ==
    (StepReturned /\ call.y = StepExample /\ call.min_seg \in 1..StepHalf) =>
        /\ locals.best_k \in (StepHalf - 1)..(StepHalf + 1)
        /\ locals.best_mu1 = R(0)
        /\ locals.best_mu2 = R(10)

\* what holds on the example: the split and the means are found for min_seg
\* below 20, and min_seg = 20 gives the degenerate result with both means 5
C23_StepExampleBelowHalf ==
    (StepReturned /\ call.y = StepExample) =>
        IF call.min_seg < StepHalf
        THEN locals.best_k = StepHalf /\ locals.best_mu1 = R(0) /\ locals.best_mu2 = R(10)
        ELSE locals.best_k = StepHalf /\ locals.best_mu1 = R(5) /\ locals.best_mu2 = R(5)

Degenerate == StepLen < 2 * call.min_seg + 1 \/ ValidSplits = {}
MeanOfAllFinite == IF FiniteOf(1..StepLen) = {} THEN NaN ELSE MeanOf(1..StepLen)

\* C24: a series shorter than 2*min_seg+1, or one without a split leaving
\* min_seg finite samples on both sides, gives the split index n div 2, which
\* is strictly between 0 and n, and both means equal to the mean of all finite
\* values.
C24_DegenerateResult ==
    (StepReturned /\ Degenerate) =>
        /\ locals.best_k = StepLen \div 2
        /\ 0 < locals.best_k /\ locals.best_k < StepLen
        /\ locals.best_mu1 = MeanOfAllFinite
        /\ locals.best_mu2 = MeanOfAllFinite

\* what the code returns in that case: max(min_seg, n div 2) and the overall mean
C24_DegenerateIndexIsMax ==
    (StepReturned /\ Degenerate) =>
        /\ locals.best_k = IF call.min_seg > StepLen \div 2 THEN call.min_seg ELSE StepLen \div 2
        /\ locals.best_mu1 = MeanOfAllFinite
        /\ locals.best_mu2 = MeanOfAllFinite

-----------------------------------------------------------------------------
(* Sign convention of the two estimators *)

DelayOf(k) == CHOOSE d \in SignDelays \cup {0} : passed.temperature[k] = DelayedSeries(d)
BothEstimated ==
    /\ LagEnded /\ pc = "returned"
    /\ offset_results # NoOffsets
    /\ call.ref_index = 0
    /\ DelayOf(3) % call.sub_sample = 0

\* C25: for the level delayed by d samples against the reference (clock_offset
\* 0) the start_offset of calculate_timing_offsets and the
\* clock_offset_estimate of perform_lag_correlation_analysis are the same
\* number, of size d*dt.
C25_SameSignInBothEstimators ==
    BothEstimated =>
        /\ offset_results.start_offsets[3] = lag_results.clock_offsets[3]
        /\ RAbs(offset_results.start_offsets[3]) = R(DelayOf(3) * 60)
        /\ RAbs(lag_results.clock_offsets[3]) = R(DelayOf(3) * 60)

\* what the code gives: the delayed level gets start_offset = +d*dt and
\* clock_offset_estimate = -d*dt
C25_OppositeSigns ==
    BothEstimated =>
        /\ offset_results.start_offsets[3] = R(DelayOf(3) * 60)
        /\ lag_results.clock_offsets[3] = R(-(DelayOf(3) * 60))

-----------------------------------------------------------------------------
(* Re-running find_deployment *)

FDEnded == InFindDeployment /\ pc \in {"returned", "raised"}

\* what a run on the same time axis and measurements writes for level k when
\* the dataset holds no annotation: the sentinels the outputs are created with
\* when the run raises on the empty time axis, the level's annotation otherwise
FreshAnnotation(k) ==
    IF Len(time) = 0
    THEN [start_time |-> NaT, end_time |-> NaT, split_value |-> NaNThreshold]
    ELSE LevelAnnotation(time, temperature[k], call)

\* C26: whatever start_time, end_time and split_value held before the run,
\* after it every level holds what a run on the dataset without them gives: no
\* stale annotation survives.
C26_RerunOverwritesEveryLevel ==
    FDEnded =>
        \A k \in 1..nlev : Annotation(start_time, end_time, split_value, k) = FreshAnnotation(k)

\* what holds: the run overwrites every level when the time axis is not empty
C26_RerunOverwritesUnlessRaised ==
    (FDEnded /\ Len(time) > 0) =>
        /\ pc = "returned"
        /\ \A k \in 1..nlev : Annotation(start_time, end_time, split_value, k) = FreshAnnotation(k)

\* the run raised on an empty time axis and the stale annotations are still there
C26_StaleSurvives ==
    /\ FDEnded /\ pc = "raised" /\ exc = "IndexError"
    /\ passed.start_time # Absent
    /\ start_time.values[1] = 0
    /\ split_value.values[1] = StaleSplit

-----------------------------------------------------------------------------
(* The reference level against itself *)

RefLevel == call.ref_index + 1
RefSub == Stride(passed.temperature[RefLevel], call.sub_sample)
PresentIn(x) == {j \in 1..Len(x) : ~isnan(x[j])}
NonConstant(x) == \E i, j \in PresentIn(x) : x[i] # x[j]
RefRecorded ==
    /\ InLagAnalysis
    /\ Len(lag_results.lags) >= RefLevel
    /\ NonConstant(RefSub)
    /\ Cardinality(PresentIn(RefSub)) >= default_min_overlap

\* C27: the reference level gets max_correlation 1.0 at best_lag 0 and
\* clock_offset_estimate = clock_offset, for every non-constant reference
\* series with at least min_overlap present samples, periodic ones included.
C27_ReferenceHasLagZero ==
    RefRecorded =>
        /\ IsOne(lag_results.max_correlations[RefLevel])
        /\ lag_results.lags[RefLevel] = 0
        /\ lag_results.clock_offsets[RefLevel] = R(clock_offset[RefLevel])

\* what holds: the correlation is 1.0 at lag 0 and is the largest one, and the
\* lag reported is the lowest lag reaching 1.0, which is never above 0
C27_ReferenceHasLowestLagOfOne ==
    RefRecorded =>
        /\ IsOne(lag_results.max_correlations[RefLevel])
        /\ IsOne(lag_results.correlations[RefLevel][lag_results.max_lag_sub + 1])
        /\ lag_results.lags[RefLevel] <= 0
        /\ \A k \in 1..(lag_results.max_lag_sub + lag_results.lags[RefLevel]) :
              ~IsOne(lag_results.correlations[RefLevel][k])

\* a reference of period 4 on 24 samples: best_lag -4 with correlation 1.0
C27_PeriodicReference ==
    /\ RefRecorded
    /\ call.ref_index = 1 /\ call.sub_sample = 1
    /\ passed.temperature[2] = PeriodicSeries(4, SelfLen)
    /\ lag_results.lags[2] = -4
    /\ IsOne(lag_results.max_correlations[2])

-----------------------------------------------------------------------------
(* Ranges of the offsets of the consensus members *)

Members == offset_results.consensus_indices
MembersWithEnd == {i \in Members : ~isnat(et_in[i])}

\* C28: every consensus member has 0 <= start_offset < bin_width_sec and one
\* of them has start_offset exactly 0; every member with a finite end_time
\* has end_offset <= 0, and when a member has a finite end_time one of them
\* has end_offset exactly 0.
C28_ConsensusOffsetRanges ==
    TimingReturned =>
        LET r == offset_results IN
        /\ \A i \in Members :
              /\ isfinite(r.start_offsets[i])
              /\ RGe(r.start_offsets[i], R(0))
              /\ RLt(r.start_offsets[i], R(call.bin_width_sec))
        /\ \E i \in Members : r.start_offsets[i] = R(0)
        /\ \A i \in MembersWithEnd :
              /\ isfinite(r.end_offsets[i])
              /\ RLe(r.end_offsets[i], R(0))
        /\ MembersWithEnd # {} => \E i \in MembersWithEnd : r.end_offsets[i] = R(0)

\* two members apart at both ends, a level one bin width after the first
\* member left out of the consensus
C28_Witness ==
    /\ TimingReturned
    /\ \E i \in Members, j \in Members :
          /\ RGt(offset_results.start_offsets[i], R(0))
          /\ RLt(offset_results.end_offsets[j], R(0))
    /\ \E i \in Levels \ Members :
          offset_results.start_offsets[i] = R(call.bin_width_sec)

-----------------------------------------------------------------------------
(* Entering an estimate as a level's clock_offset: Stage 2 on the level's
   record, the record put on the common grid again, the lag analysis again *)

\* np.rint of a finite float: the nearest integer, halves to the even one
rint(r) ==
    LET q == r.n \div r.d
        rem == r.n - q * r.d
    IN  IF 2 * rem < r.d THEN q
        ELSE IF 2 * rem > r.d THEN q + 1
        ELSE IF q % 2 = 0 THEN q ELSE q + 1

\* Dataset.interp(time=time_grid) at one grid time g: linear between the two
\* samples around g, NaN outside the record
interp_at(t, v, g) ==
    IF Len(t) < 2 \/ g < t[1] \/ g > t[Len(t)] THEN NaN
    ELSE LET idx == CHOOSE i \in 1..Len(t) : t[i] >= g /\ \A m \in 1..(i - 1) : t[m] < g
             hi == Max(idx, 2)
             lo == hi - 1
         IN  IF isnan(v[lo]) \/ isnan(v[hi]) THEN NaN
             ELSE RAdd(RMul(RDiv(RSub(v[hi], v[lo]), R(t[hi] - t[lo])), R(g - t[lo])), v[lo])

\* the estimate of a level other than the reference is entered in the yaml:
\* Stage 2 shifts the level's record by int(c) seconds, the record is put on
\* the grid again and the combined dataset holds rint(c) as its clock_offset
ReEnterClockOffset ==
    /\ pc = "returned"
    /\ call.name = "perform_lag_correlation_analysis"
    /\ result = NoResult
    /\ \E k \in 1..nlev :
          /\ k # call.ref_index + 1
          /\ isfinite(lag_results.clock_offsets[k])
          /\ LET c == lag_results.clock_offsets[k]
                 record_time == [j \in DOMAIN time |-> time[j] - clock_offset[k]]
                 shifted == [j \in DOMAIN time |-> record_time[j] + PyInt(c)]
             IN  /\ result' = [time |-> IF c = R(0) THEN record_time ELSE shifted,
                               clock_offset |-> c, units |-> "s"]
                 /\ temperature' =
                       [temperature EXCEPT ![k] =
                           [j \in DOMAIN time |-> interp_at(result'.time, temperature[k], time[j])]]
                 /\ clock_offset' = [clock_offset EXCEPT ![k] = rint(c)]
                 /\ call' = [call EXCEPT !.name = "_apply_clock_offset", !.clock_offset = c]
    /\ UNCHANGED <<suggestion, shape, time, start_time, end_time, split_value, passed, pc,
                   lvl, exc, locals, deep_is_below, offset_results, lag_results>>

\* the lag analysis run again against the same reference
LagAgain ==
    /\ pc = "returned"
    /\ call.name = "_apply_clock_offset"
    /\ LagCallOn(call.ref_index, call.sub_sample)

(* Datasets of two levels, the second one holding the first one's signal a
   whole number of sub-sampled steps earlier or later *)
ReentryLen == 24
ReentryShifts == {-4, -2, 0, 2, 4}
ReentryPeriods == {0, 4}

\* the irregular signal for p = 0, else 1.0 every p samples
SignalOf(p, j) == IF p = 0 THEN Signal(j) ELSE IF (j + 2 * p) % p = 0 THEN R(1) ELSE R(0)

InitReentry ==
    /\ shape = GoodShape
    /\ time = TimeGrid(ReentryLen, 60)
    /\ \E p \in ReentryPeriods, d \in ReentryShifts :
          temperature = <<[j \in 1..ReentryLen |-> SignalOf(p, j)],
                          [j \in 1..ReentryLen |-> SignalOf(p, j - d)]>>
    /\ clock_offset \in {<<0, 0>>, <<0, 30>>}
    /\ start_time = Absent /\ end_time = Absent /\ split_value = Absent
    /\ AtRest

NextReentry ==
    \/ LagStart \/ LagCorrelate \/ LagPick \/ LagReturn
    \/ ReEnterClockOffset \/ LagAgain

SpecReentry == InitReentry /\ [][NextReentry]_vars

-----------------------------------------------------------------------------
(* Properties of the re-entry *)

Reentered == InLagAnalysis /\ pc = "returned" /\ result # NoResult
ReenteredLevel == CHOOSE k \in 1..nlev : k # RefLevel

\* C29: after the estimate of a level was entered as its clock_offset and the
\* lag analysis was run again against the same reference, the level's best_lag
\* is 0 and its new clock_offset_estimate is the value entered.
C29_ReentryIsFixedPoint ==
    Reentered =>
        /\ lag_results.lags[ReenteredLevel] = 0
        /\ lag_results.clock_offsets[ReenteredLevel] = result.clock_offset

\* what holds: the records are aligned (correlation 1.0 at lag 0), the residual
\* lag is the lowest lag reaching 1.0, never above 0, and the new estimate is
\* the value entered plus that lag
C29_ResidualIsLowestLagOfOne ==
    Reentered =>
        LET k == ReenteredLevel
            lag == lag_results.lags[k]
        IN  /\ IsOne(lag_results.correlations[k][lag_results.max_lag_sub + 1])
            /\ IsOne(lag_results.max_correlations[k])
            /\ lag <= 0
            /\ \A m \in 1..(lag_results.max_lag_sub + lag) : ~IsOne(lag_results.correlations[k][m])
            /\ lag_results.clock_offsets[k] =
                  RAdd(result.clock_offset, RMul(R(lag * call.sub_sample), lag_results.time_interval))

\* two levels holding the same period-4 signal: -240 s was entered and the
\* second run finds lag -4 again, its estimate is -480 s
C29_PeriodicRecord ==
    /\ Reentered
    /\ call.ref_index = 0 /\ call.sub_sample = 1
    /\ passed.clock_offset = <<0, -240>>
    /\ result.clock_offset = R(-240)
    /\ lag_results.lags[2] = -4
    /\ lag_results.clock_offsets[2] = R(-480)

\* the irregular signal four samples late: -240 s was entered and the second
\* run finds lag 0
C29_AlignedRecord ==
    /\ Reentered
    /\ call.ref_index = 0 /\ call.sub_sample = 1
    /\ result.clock_offset = R(-240)
    /\ passed.temperature[2][8] = R(1) /\ passed.temperature[2][4] = R(1)
    /\ passed.temperature[2][5] = R(0)
    /\ isnan(passed.temperature[2][ReentryLen])
    /\ lag_results.lags[2] = 0
    /\ lag_results.clock_offsets[2] = R(-240)

-----------------------------------------------------------------------------
(* find_deployment.py: _runs_of_true, _first_sustained, _last_sustained *)

\* np.flatnonzero(mask): the 0-based indices of the True entries, ascending
RECURSIVE flatnonzero_from(_, _)
flatnonzero_from(mask, j) ==
    IF j > Len(mask) THEN <<>>
    ELSE (IF mask[j] THEN <<j - 1>> ELSE <<>>) \o flatnonzero_from(mask, j + 1)
flatnonzero(mask) == flatnonzero_from(mask, 1)

\* a[flags]: the entries of a where flags is True
RECURSIVE bool_index(_, _)
bool_index(a, flags) ==
    IF Len(a) = 0 THEN <<>>
    ELSE (IF Head(flags) THEN <<Head(a)>> ELSE <<>>) \o bool_index(Tail(a), Tail(flags))

\* idx[:-1]
but_last(a) == SubSeq(a, 1, Len(a) - 1)

\* _runs_of_true with a gap being a step of more than 2 indices
runs_of_true_wide_gap(mask) ==
    LET idx == flatnonzero(mask)
    IN  IF Len(idx) = 0 THEN <<>>
        ELSE LET gaps == [k \in 1..(Len(idx) - 1) |-> idx[k + 1] - idx[k] > 2]
                 starts == <<idx[1]>> \o bool_index(Tail(idx), gaps)
                 ends == bool_index(but_last(idx), gaps) \o <<idx[Len(idx)]>>
             IN  [k \in 1..Len(starts) |-> <<starts[k], ends[k]>>]

\* lines 37-44: the (start, end) pairs zipped from the starts and the ends
runs_of_true(mask) ==
    LET idx == flatnonzero(mask)
    IN  IF Len(idx) = 0 THEN <<>>
        ELSE LET gaps == [k \in 1..(Len(idx) - 1) |-> idx[k + 1] - idx[k] > 1]
                 starts == <<idx[1]>> \o bool_index(Tail(idx), gaps)
                 ends == bool_index(but_last(idx), gaps) \o <<idx[Len(idx)]>>
             IN  [k \in 1..Len(starts) |-> <<starts[k], ends[k]>>]

\* lines 10-14: the first run of at least min_len indices, <<>> for None
RECURSIVE first_in(_, _)
first_in(runs, min_len) ==
    IF Len(runs) = 0 THEN <<>>
    ELSE IF (Head(runs)[2] - Head(runs)[1] + 1) >= min_len THEN Head(runs)
    ELSE first_in(Tail(runs), min_len)
first_sustained(mask, min_len) == first_in(runs_of_true(mask), min_len)

\* lines 17-19: the last of the runs of at least min_len indices, <<>> for None
last_sustained(mask, min_len) ==
    LET runs == SelectSeq(runs_of_true(mask), LAMBDA r : (r[2] - r[1] + 1) >= min_len)
    IN  IF Len(runs) > 0 THEN runs[Len(runs)] ELSE <<>>

(* Inputs of the three helpers *)
MaxMaskLen == 7
Masks == UNION {[1..n -> BOOLEAN] : n \in 0..MaxMaskLen}
MinLens == {0, 1, 2, 3, 8}

\* _runs_of_true(mask)
RunsOfTrue ==
    /\ pc = "idle"
    /\ \E mask \in Masks :
          /\ call' = [NoCall EXCEPT !.name = "_runs_of_true", !.mask = mask]
          /\ locals' = [NoLocals EXCEPT !.runs = runs_of_true(mask)]
    /\ pc' = "returned"
    /\ UNCHANGED <<result, suggestion, shape, time, temperature, clock_offset, start_time, end_time,
                   split_value, passed, lvl, exc, deep_is_below, offset_results, lag_results>>

\* _first_sustained(mask, min_len)
FirstSustained ==
    /\ pc = "idle"
    /\ \E mask \in Masks, min_len \in MinLens :
          /\ call' = [NoCall EXCEPT !.name = "_first_sustained", !.mask = mask, !.min_len = min_len]
          /\ locals' = [NoLocals EXCEPT !.first = first_sustained(mask, min_len)]
    /\ pc' = "returned"
    /\ UNCHANGED <<result, suggestion, shape, time, temperature, clock_offset, start_time, end_time,
                   split_value, passed, lvl, exc, deep_is_below, offset_results, lag_results>>

\* _last_sustained(mask, min_len)
LastSustained ==
    /\ pc = "idle"
    /\ \E mask \in Masks, min_len \in MinLens :
          /\ call' = [NoCall EXCEPT !.name = "_last_sustained", !.mask = mask, !.min_len = min_len]
          /\ locals' = [NoLocals EXCEPT !.last = last_sustained(mask, min_len)]
    /\ pc' = "returned"
    /\ UNCHANGED <<result, suggestion, shape, time, temperature, clock_offset, start_time, end_time,
                   split_value, passed, lvl, exc, deep_is_below, offset_results, lag_results>>

InitRuns ==
    /\ shape = GoodShape
    /\ time = <<>>
    /\ temperature = <<>>
    /\ clock_offset = <<>>
    /\ start_time = Absent /\ end_time = Absent /\ split_value = Absent
    /\ AtRest

NextRuns == RunsOfTrue \/ FirstSustained \/ LastSustained

SpecRuns == InitRuns /\ [][NextRuns]_vars

-----------------------------------------------------------------------------
(* Properties of the three helpers *)

MaskIndices == 0..(Len(call.mask) - 1)
MaskAt(i) == call.mask[i + 1]

\* the maximal runs of adjacent True indices of the mask, as <<start, end>>
MaximalRuns ==
    {r \in MaskIndices \X MaskIndices :
        /\ r[1] <= r[2]
        /\ \A i \in r[1]..r[2] : MaskAt(i)
        /\ (r[1] - 1 \in MaskIndices) => ~MaskAt(r[1] - 1)
        /\ (r[2] + 1 \in MaskIndices) => ~MaskAt(r[2] + 1)}
Qualifying == {r \in MaximalRuns : r[2] - r[1] + 1 >= call.min_len}

\* C30: _runs_of_true returns the maximal runs of adjacent True indices as
\* inclusive (start, end) pairs in increasing order, disjoint, a False between
\* two of them, together covering every True index; _first_sustained returns
\* the first and _last_sustained the last of the runs of at least min_len
\* indices, None when no run qualifies.
C30_RunsAndSustainedRuns ==
    /\ (call.name = "_runs_of_true" /\ pc = "returned") =>
          LET runs == locals.runs IN
          /\ {runs[k] : k \in 1..Len(runs)} = MaximalRuns
          /\ \A k \in 1..(Len(runs) - 1) :
                /\ runs[k][2] + 1 < runs[k + 1][1]
                /\ \E i \in (runs[k][2] + 1)..(runs[k + 1][1] - 1) : ~MaskAt(i)
          /\ \A i \in MaskIndices :
                MaskAt(i) => \E k \in 1..Len(runs) : runs[k][1] <= i /\ i <= runs[k][2]
    /\ (call.name = "_first_sustained" /\ pc = "returned") =>
          IF Qualifying = {} THEN locals.first = <<>>
          ELSE /\ locals.first \in Qualifying
               /\ \A r \in Qualifying : locals.first[1] <= r[1]
    /\ (call.name = "_last_sustained" /\ pc = "returned") =>
          IF Qualifying = {} THEN locals.last = <<>>
          ELSE /\ locals.last \in Qualifying
               /\ \A r \in Qualifying : r[1] <= locals.last[1]

\* runs of 2, 1 and 2 indices with min_len 2: the last sustained run is (5, 6),
\* the run (3, 3) is passed over
C30_Witness ==
    /\ call.name = "_last_sustained" /\ pc = "returned"
    /\ call.mask = <<TRUE, TRUE, FALSE, TRUE, FALSE, TRUE, TRUE>>
    /\ call.min_len = 2
    /\ locals.last = <<5, 6>>
    /\ Cardinality(MaximalRuns) = 3

=========================================================================
